---- MODULE Spec2Model ----
(***************************************************************************)
(* A model of the tree-walking interpreter of rdni/interpreter: the scope  *)
(* chain (runtime/environment.rs), the value model (runtime/values.rs),    *)
(* the evaluator (runtime/interpreter.rs, eval/*.rs, Body::run of          *)
(* frontend/ast.rs) and the parser (frontend/parser.rs).                   *)
(*                                                                         *)
(* Environments live in a heap `envs`: an Arc<Mutex<Environment>> is the   *)
(* index of its record in that sequence, and parent = 0 stands for None.   *)
(* fatal_error panics; the model records it in `fatal` and, once set, no   *)
(* operation runs any more.                                                *)
(***************************************************************************)
EXTENDS Integers, Sequences, FiniteSets, TLC

VARIABLES envs, fatal, last, result, tokens, ast, steps

vars == <<envs, fatal, last, result, tokens, ast, steps>>

(***************************************************************************)
(* Bounds of the model.                                                    *)
(***************************************************************************)
\* environments the heap may hold in EnvSpec
MaxEnvs == 3
\* environment operations of one run of EnvSpec
MaxOps == 4
\* decimal places the text of a non-integral number is carried to
MaxFracDigits == 6

(***************************************************************************)
(* Numbers.  A NumberValue holds an f64; the model holds the rational      *)
(* <<n, d>> in lowest terms with d > 0, and <<1, 0>>, <<-1, 0>>, <<0, 0>>   *)
(* for +inf, -inf and NaN.  Rounding and the sign of zero are not          *)
(* modelled: the literals of the model are small integers.                 *)
(***************************************************************************)
Sign(i) == IF i > 0 THEN 1 ELSE IF i < 0 THEN -1 ELSE 0

Abs(i) == IF i < 0 THEN -i ELSE i

RECURSIVE GCD(_, _)
GCD(a, b) == IF b = 0 THEN a ELSE GCD(b, a % b)

Norm(n, d) ==
    IF d = 0 THEN <<Sign(n), 0>>
    ELSE LET g == GCD(Abs(n), Abs(d))
         IN  <<(Sign(d) * n) \div g, Abs(d) \div g>>

Num(i) == <<i, 1>>

NaN == <<0, 0>>

IsFinite(a) == a[2] # 0

\* truncation toward zero of a finite number (f64::trunc, `as i32`, `as usize`)
Trunc(a) == Sign(a[1]) * (Abs(a[1]) \div a[2])

\* the bounds of i32
I32Max == 2147483647

I32Min == -I32Max - 1

\* `as i32` of an f64: NaN is 0, the cast truncates and saturates
AsI32(a) ==
    IF a = NaN THEN 0
    ELSE IF ~IsFinite(a) THEN (IF a[1] > 0 THEN I32Max ELSE I32Min)
    ELSE IF Trunc(a) > I32Max THEN I32Max
    ELSE IF Trunc(a) < I32Min THEN I32Min
    ELSE Trunc(a)

F64Add(a, b) ==
    IF IsFinite(a) /\ IsFinite(b) THEN Norm(a[1] * b[2] + b[1] * a[2], a[2] * b[2])
    ELSE IF IsFinite(b) THEN a
    ELSE IF IsFinite(a) THEN b
    ELSE IF a = b THEN a ELSE NaN

F64Neg(a) == <<-a[1], a[2]>>

F64Sub(a, b) == F64Add(a, F64Neg(b))

F64Mul(a, b) == Norm(a[1] * b[1], a[2] * b[2])

F64Div(a, b) ==
    IF ~IsFinite(a) /\ ~IsFinite(b) THEN NaN
    ELSE Norm(a[1] * b[2] * (IF b[1] < 0 THEN -1 ELSE 1), a[2] * Abs(b[1]))

\* the % of f64: the remainder has the sign of the dividend
F64Rem(a, b) ==
    IF ~IsFinite(a) \/ b = NaN \/ b = Num(0) THEN NaN
    ELSE IF ~IsFinite(b) THEN a
    ELSE F64Sub(a, F64Mul(b, Num(Trunc(F64Div(a, b)))))

F64Eq(a, b) == a # NaN /\ b # NaN /\ a = b

F64Lt(a, b) ==
    /\ a # NaN
    /\ b # NaN
    /\ a # b
    /\ IF IsFinite(a) /\ IsFinite(b) THEN a[1] * b[2] < b[1] * a[2]
       ELSE IF IsFinite(a) THEN b[1] > 0
       ELSE IF IsFinite(b) THEN a[1] < 0
       ELSE a[1] < b[1]

(***************************************************************************)
(* Runtime values (runtime/values.rs) and the MK_ macros (macros.rs).      *)
(***************************************************************************)
MK_NULL == [type |-> "Null"]

MK_BOOL(b) == [type |-> "Boolean", value |-> b]

MK_NUMBER(q) == [type |-> "Number", value |-> q]

MK_STRING(s) == [type |-> "String", value |-> s]

MK_NATIVE_FN(f) == [type |-> "NativeFn", func |-> f]

\* ListValue { elements }: the variant eval_expressions.rs uses; values.rs
\* does not hold its definition
MK_LIST(elements) == [type |-> "List", elements |-> elements]

(***************************************************************************)
(* Environments (runtime/environment.rs).                                  *)
(***************************************************************************)
None == 0

EmptyMap == [n \in {} |-> MK_NULL]

\* HashMap::insert
Insert(map, key, value) == (key :> value) @@ map

\* mutant: forgets the check that the scope itself already binds the name
declare_var_unchecked(env, varname, value, constant) ==
    [fatal |-> FALSE,
     env   |-> [env EXCEPT !.variables = Insert(@, varname, value),
                          !.constants = IF constant THEN <<varname>> \o @ ELSE @],
     value |-> value]

\* Environment::declare_var on one environment record
declare_var(env, varname, value, constant) ==
    IF varname \in DOMAIN env.variables
    THEN [fatal |-> TRUE, env |-> env, value |-> value]
    ELSE [fatal |-> FALSE,
          env   |-> [env EXCEPT !.variables = Insert(@, varname, value),
                               !.constants = IF constant THEN <<varname>> \o @ ELSE @],
          value |-> value]

\* the builtins setup_scope declares, in order
Builtins ==
    << <<"null", MK_NULL>>, <<"true", MK_BOOL(TRUE)>>, <<"false", MK_BOOL(FALSE)>>,
       <<"print", MK_NATIVE_FN("native_print")>>, <<"time", MK_NATIVE_FN("native_time")>>,
       <<"sleep", MK_NATIVE_FN("native_sleep")>>, <<"input", MK_NATIVE_FN("native_input")>>,
       <<"exit", MK_NATIVE_FN("native_exit")>> >>

RECURSIVE setup_from(_, _)
setup_from(env, i) ==
    IF i > Len(Builtins) THEN env
    ELSE setup_from(declare_var(env, Builtins[i][1], Builtins[i][2], TRUE).env, i + 1)

setup_scope(env) == setup_from(env, 1)

\* Environment::new
Environment_new(parent_param) ==
    LET env == [parent |-> parent_param,
                variables |-> EmptyMap,
                constants |-> <<>>,
                position |-> 0,
                continue_interpreting |-> TRUE]
    IN  IF parent_param = None THEN setup_scope(env) ELSE env

is_global(env) == env.parent = None

get_constants(env) == {env.constants[i] : i \in DOMAIN env.constants}

\* Arc::new(Mutex::new(Environment::new(Some(parent)))): the heap with the new
\* environment and its index
Alloc(heap, parent) == [envs |-> Append(heap, Environment_new(parent)), env |-> Len(heap) + 1]

\* mutant: looks the name up in the enclosing scopes before the scope itself
RECURSIVE resolve_outermost(_, _, _)
resolve_outermost(heap, e, varname) ==
    LET up == IF heap[e].parent = None THEN None
              ELSE resolve_outermost(heap, heap[e].parent, varname)
    IN  IF up # None THEN up
        ELSE IF varname \in DOMAIN heap[e].variables THEN e ELSE None

\* SharedEnvironment::resolve: the owner of the name, None when the walk falls
\* off the root (a fatal error)
RECURSIVE resolve(_, _, _)
resolve(heap, e, varname) ==
    IF varname \in DOMAIN heap[e].variables THEN e
    ELSE IF heap[e].parent = None THEN None
    ELSE resolve(heap, heap[e].parent, varname)

\* SharedEnvironment::lookup_var
lookup_var(heap, e, varname) ==
    LET env == resolve(heap, e, varname)
    IN  IF env = None THEN [fatal |-> TRUE, value |-> MK_NULL]
        ELSE [fatal |-> FALSE, value |-> heap[env].variables[varname]]

\* mutant: objects are shared, the write reaches every binding that held the
\* value the name had
assign_var_shared(heap, e, varname, value) ==
    LET env == resolve(heap, e, varname)
    IN  IF env = None THEN [fatal |-> TRUE, envs |-> heap, value |-> value]
        ELSE IF varname \notin get_constants(heap[env])
        THEN [fatal |-> TRUE, envs |-> heap, value |-> value]
        ELSE [fatal |-> FALSE,
              envs  |-> [i \in DOMAIN heap |->
                          [heap[i] EXCEPT !.variables =
                              [n \in DOMAIN heap[i].variables |->
                                  IF heap[i].variables[n] = heap[env].variables[varname]
                                  THEN value ELSE heap[i].variables[n]]]],
              value |-> value]

\* mutant: writes the binding into the scope the assignment runs in
assign_var_here(heap, e, varname, value) ==
    LET env == resolve(heap, e, varname)
    IN  IF env = None THEN [fatal |-> TRUE, envs |-> heap, value |-> value]
        ELSE IF varname \notin get_constants(heap[env])
        THEN [fatal |-> TRUE, envs |-> heap, value |-> value]
        ELSE [fatal |-> FALSE,
              envs  |-> [heap EXCEPT ![e].variables = Insert(@, varname, value)],
              value |-> value]

\* SharedEnvironment::assign_var
assign_var(heap, e, varname, value) ==
    LET env == resolve(heap, e, varname)
    IN  IF env = None THEN [fatal |-> TRUE, envs |-> heap, value |-> value]
        ELSE LET is_constant == varname \in get_constants(heap[env])
             IN  IF ~is_constant
                 THEN [fatal |-> TRUE, envs |-> heap, value |-> value]
                 ELSE [fatal |-> FALSE,
                       envs  |-> [heap EXCEPT ![env].variables = Insert(@, varname, value)],
                       value |-> value]

(***************************************************************************)
(* The value model's methods (impl RuntimeValue for ..., values.rs).        *)
(* A FunctionValue is [type, name, parameters, declaration_env, body]; an   *)
(* ObjectValue is [type, properties, hasher]: its HashMap iterates in an    *)
(* order its own RandomState decides, which the model keeps as one bit      *)
(* (ascending or descending in KeyOrder) drawn when the map is created.     *)
(***************************************************************************)
get_type(v) == v.type

\* digits of a natural number (Display for an integral f64)
NatToString(i) == ToString(i)

\* the first `k` decimal digits of the fraction r / d, trailing zeros dropped
RECURSIVE FracDigits(_, _, _)
FracDigits(r, d, k) ==
    IF r = 0 \/ k = 0 THEN ""
    ELSE NatToString((r * 10) \div d) \o FracDigits((r * 10) % d, d, k - 1)


\* f64::to_string (Display)
F64ToString(a) ==
    IF a = NaN THEN "NaN"
    ELSE IF ~IsFinite(a) THEN (IF a[1] < 0 THEN "-inf" ELSE "inf")
    ELSE LET whole == Abs(a[1]) \div a[2]
             rest  == Abs(a[1]) % a[2]
             sign  == IF a[1] < 0 THEN "-" ELSE ""
         IN  IF rest = 0 THEN sign \o NatToString(whole)
             ELSE sign \o NatToString(whole) \o "." \o FracDigits(rest, a[2], MaxFracDigits)

\* the names object properties take in the model, in the order that stands
\* for ascending hash order
KeyOrder == <<"a", "b", "c", "k", "p", "x", "y">>

KeyRank(k) == CHOOSE i \in DOMAIN KeyOrder : KeyOrder[i] = k

\* HashMap::iter of an object's properties: its keys in the order of its hasher
RECURSIVE SortKeys(_, _)
SortKeys(keys, ascending) ==
    IF keys = {} THEN <<>>
    ELSE LET k == CHOOSE x \in keys : \A y \in keys :
                      IF ascending THEN KeyRank(x) <= KeyRank(y) ELSE KeyRank(x) >= KeyRank(y)
         IN  <<k>> \o SortKeys(keys \ {k}, ascending)

properties_iter(obj) == SortKeys(DOMAIN obj.properties, obj.hasher)

\* pad_each_line(4, ..) of lib.rs, on a text held as its lines
RECURSIVE Spaces(_)
Spaces(amount) == IF amount = 0 THEN "" ELSE " " \o Spaces(amount - 1)

pad_each_line(amount, lines) == [i \in DOMAIN lines |-> Spaces(amount) \o lines[i]]

\* RuntimeValue::to_string, as the lines of the text (no string of the model
\* holds a line break)
RECURSIVE to_lines(_)
RECURSIVE object_lines(_, _, _)
object_lines(obj, keys, i) ==
    IF i > Len(keys) THEN <<>>
    ELSE LET inner == to_lines(obj.properties[keys[i]])
             text  == <<keys[i] \o ": " \o inner[1]>> \o SubSeq(inner, 2, Len(inner))
         IN  pad_each_line(4, text) \o object_lines(obj, keys, i + 1)

to_lines(v) ==
    CASE v.type = "Boolean"  -> <<IF v.value THEN "true" ELSE "false">>
      [] v.type = "Null"     -> <<"null">>
      [] v.type = "Number"   -> <<F64ToString(v.value)>>
      [] v.type = "Object"   -> <<"{">> \o object_lines(v, properties_iter(v), 1) \o <<"}">>
      [] v.type = "NativeFn" -> <<"NativeFn">>
      [] v.type = "String"   -> <<v.value>>
      [] v.type = "Function" -> <<v.name>>

RECURSIVE JoinLines(_, _)
JoinLines(lines, i) ==
    IF i > Len(lines) THEN ""
    ELSE IF i = Len(lines) THEN lines[i]
    ELSE lines[i] \o "\n" \o JoinLines(lines, i + 1)

to_string(v) == JoinLines(to_lines(v), 1)

as_bool(v) ==
    CASE v.type = "Boolean"  -> v.value
      [] v.type = "Null"     -> FALSE
      [] v.type = "Number"   -> ~F64Eq(v.value, Num(0))
      [] v.type = "Object"   -> DOMAIN v.properties # {}
      [] v.type = "NativeFn" -> TRUE
      [] v.type = "String"   -> Len(v.value) # 0
      [] v.type = "Function" -> TRUE

\* mutant: functions compared by what they are made of, name, parameters
\* and body
equals_by_declaration(a, b) ==
    CASE a.type = "Boolean"  -> a.value = b.value
      [] a.type = "Null"     -> TRUE
      [] a.type = "Number"   -> F64Eq(a.value, b.value)
      [] a.type = "Object"   ->
            IF Cardinality(DOMAIN a.properties) # Cardinality(DOMAIN b.properties) THEN FALSE
            ELSE to_string(a) = to_string(b)
      [] a.type = "NativeFn" -> a.func = b.func
      [] a.type = "String"   -> a.value = b.value
      [] a.type = "Function" -> a.name = b.name /\ a.parameters = b.parameters /\ a.body = b.body

\* RuntimeValue::equals, called on two values of one type
equals(a, b) ==
    CASE a.type = "Boolean"  -> a.value = b.value
      [] a.type = "Null"     -> TRUE
      [] a.type = "Number"   -> F64Eq(a.value, b.value)
      [] a.type = "Object"   ->
            IF Cardinality(DOMAIN a.properties) # Cardinality(DOMAIN b.properties) THEN FALSE
            ELSE to_string(a) = to_string(b)
      [] a.type = "NativeFn" -> a.func = b.func
      [] a.type = "String"   -> a.value = b.value
      [] a.type = "Function" -> a.declaration_env = b.declaration_env

\* less_than and greater_than are implemented by NumberValue alone: the
\* trait's default is a fatal error
can_order(v) == v.type = "Number"

less_than(a, b) == F64Lt(a.value, b.value)

greater_than(a, b) == F64Lt(b.value, a.value)

(***************************************************************************)
(* AST nodes (frontend/ast.rs): records tagged with the NodeType in `kind`. *)
(* An Option that is None is the node NoNode.                               *)
(***************************************************************************)
NoNode == [kind |-> "None"]

NumericLiteral(v) == [kind |-> "NumericLiteral", value |-> v]

StringLiteral(s) == [kind |-> "String", string |-> s]

Identifier(s) == [kind |-> "Identifier", symbol |-> s]

BinaryExpr(l, op, r) == [kind |-> "BinaryExpr", left |-> l, right |-> r, operator |-> op]

ComparativeExpr(l, op, r) == [kind |-> "ComparativeExpr", left |-> l, right |-> r, operator |-> op]

AssignmentExpr(a, v) == [kind |-> "AssignmentExpr", assignee |-> a, value |-> v]

Property(k, v) == [kind |-> "Property", key |-> k, value |-> v]

ObjectLiteral(props) == [kind |-> "Object", properties |-> props]

CallExpr(c, a) == [kind |-> "CallExpr", caller |-> c, args |-> a]

MemberExpr(o, p, c) == [kind |-> "MemberExpr", object |-> o, property |-> p, computed |-> c]

Body(stmts) == [kind |-> "Body", body |-> stmts]

VarDeclaration(c, id, v) == [kind |-> "VarDeclaration", constant |-> c, identifier |-> id, value |-> v]

FunctionDeclaration(n, ps, b) == [kind |-> "FunctionDeclaration", parameters |-> ps, name |-> n, body |-> b]

ReturnStmt(v) == [kind |-> "Return", value |-> v]

IfStmt(c, b, e) == [kind |-> "If", condition |-> c, body |-> b, else_stmt |-> e]

WhileStmt(c, b) == [kind |-> "While", condition |-> c, body |-> b]

ForStmt(it, v, b) == [kind |-> "For", iterable |-> it, variable |-> v, body |-> b]

Program(b) == [kind |-> "Program", body |-> b]

(***************************************************************************)
(* The evaluator.  Every operator takes the interpreter's memory `st` (the  *)
(* heap st.envs, st.fatal, and st.hashers, the hashers the HashMaps still   *)
(* to be created will get) and returns it with the value computed.  After   *)
(* a fatal error nothing more is evaluated.                                 *)
(***************************************************************************)
Ret(st, v) == [value |-> v, envs |-> st.envs, fatal |-> st.fatal, hashers |-> st.hashers]

Panic(st) == [value |-> MK_NULL, envs |-> st.envs, fatal |-> TRUE, hashers |-> st.hashers]

WithEnvs(st, heap) == [st EXCEPT !.envs = heap]

RECURSIVE eval(_, _, _)

\* String::repeat
RECURSIVE Repeat(_, _)
Repeat(str, k) == IF k <= 0 THEN "" ELSE str \o Repeat(str, k - 1)

\* `as usize` of an f64, for the finite numbers
AsUsize(a) == IF a = NaN \/ a[1] < 0 THEN 0 ELSE Trunc(a)

\* eval_numeric_binary_expr
eval_numeric_binary_expr(lhs, rhs, operator) ==
    CASE operator = "+" -> MK_NUMBER(F64Add(lhs.value, rhs.value))
      [] operator = "-" -> MK_NUMBER(F64Sub(lhs.value, rhs.value))
      [] operator = "*" -> MK_NUMBER(F64Mul(lhs.value, rhs.value))
      [] operator = "/" -> MK_NUMBER(F64Div(lhs.value, rhs.value))
      [] operator = "%" -> MK_NUMBER(F64Rem(lhs.value, rhs.value))
      [] OTHER          -> MK_NUMBER(Num(0))

\* eval_string_binary_expr: any operator but + is reported and yields ""
eval_string_binary_expr(lhs, rhs, operator) ==
    CASE operator = "+" -> MK_STRING(lhs.value \o rhs.value)
      [] OTHER          -> MK_STRING("")

\* eval_string_numeric_binary_expr
eval_string_numeric_binary_expr(string, number, operator) ==
    CASE operator = "+" -> MK_STRING(string.value \o F64ToString(number.value))
      [] operator = "*" -> MK_STRING(Repeat(string.value, AsUsize(number.value)))
      [] OTHER          -> MK_STRING("")

\* eval_binop_expr
eval_binop_expr(binop, env, st) ==
    LET l == eval(binop.left, env, st)
        r == eval(binop.right, env, l)
        lhs == l.value
        rhs == r.value
    IN  IF l.fatal THEN l
        ELSE IF r.fatal THEN r
        ELSE IF lhs.type = "Number" /\ rhs.type = "Number"
        THEN Ret(r, eval_numeric_binary_expr(lhs, rhs, binop.operator))
        ELSE IF lhs.type = "String" /\ rhs.type = "String"
        THEN Ret(r, eval_string_binary_expr(lhs, rhs, binop.operator))
        ELSE IF (lhs.type = "String" /\ rhs.type = "Number") \/ (rhs.type = "String" /\ lhs.type = "Number")
        THEN LET string == IF lhs.type = "String" THEN lhs ELSE rhs
                 number == IF lhs.type = "String" THEN rhs ELSE lhs
             IN  Ret(r, eval_string_numeric_binary_expr(string, number, binop.operator))
        ELSE Ret(r, MK_NULL)

\* mutant: != copies the type check of == and is false on a type mismatch
eval_comp_expr_mismatch_false(comp, env, st) ==
    LET l == eval(comp.left, env, st)
        r == eval(comp.right, env, l)
        left == l.value
        right == r.value
        same == left.type = right.type
        op == comp.operator
    IN  IF l.fatal THEN l
        ELSE IF r.fatal THEN r
        ELSE CASE op = "==" -> Ret(r, MK_BOOL(same /\ equals(left, right)))
               [] op = ">"  -> IF ~same THEN Ret(r, MK_BOOL(FALSE))
                               ELSE IF ~can_order(left) THEN Panic(r)
                               ELSE Ret(r, MK_BOOL(greater_than(left, right)))
               [] op = "<"  -> IF ~same THEN Ret(r, MK_BOOL(FALSE))
                               ELSE IF ~can_order(left) THEN Panic(r)
                               ELSE Ret(r, MK_BOOL(less_than(left, right)))
               [] op = ">=" -> IF ~same THEN Ret(r, MK_BOOL(FALSE))
                               ELSE IF ~can_order(left) THEN Panic(r)
                               ELSE Ret(r, MK_BOOL(greater_than(left, right) \/ equals(left, right)))
               [] op = "<=" -> IF ~same THEN Ret(r, MK_BOOL(FALSE))
                               ELSE IF ~can_order(left) THEN Panic(r)
                               ELSE Ret(r, MK_BOOL(less_than(left, right) \/ equals(left, right)))
               [] op = "!=" -> Ret(r, MK_BOOL(same /\ ~equals(left, right)))
               [] OTHER     -> Ret(r, MK_NULL)

\* eval_comp_expr
eval_comp_expr(comp, env, st) ==
    LET l == eval(comp.left, env, st)
        r == eval(comp.right, env, l)
        left == l.value
        right == r.value
        same == left.type = right.type
        op == comp.operator
    IN  IF l.fatal THEN l
        ELSE IF r.fatal THEN r
        ELSE CASE op = "==" -> Ret(r, MK_BOOL(same /\ equals(left, right)))
               [] op = ">"  -> IF ~same THEN Ret(r, MK_BOOL(FALSE))
                               ELSE IF ~can_order(left) THEN Panic(r)
                               ELSE Ret(r, MK_BOOL(greater_than(left, right)))
               [] op = "<"  -> IF ~same THEN Ret(r, MK_BOOL(FALSE))
                               ELSE IF ~can_order(left) THEN Panic(r)
                               ELSE Ret(r, MK_BOOL(less_than(left, right)))
               [] op = ">=" -> IF ~same THEN Ret(r, MK_BOOL(FALSE))
                               ELSE IF ~can_order(left) THEN Panic(r)
                               ELSE Ret(r, MK_BOOL(greater_than(left, right) \/ equals(left, right)))
               [] op = "<=" -> IF ~same THEN Ret(r, MK_BOOL(FALSE))
                               ELSE IF ~can_order(left) THEN Panic(r)
                               ELSE Ret(r, MK_BOOL(less_than(left, right) \/ equals(left, right)))
               [] op = "!=" -> Ret(r, MK_BOOL(~same \/ ~equals(left, right)))
               [] OTHER     -> Ret(r, MK_NULL)

\* eval_identifier
eval_identifier(identifier, env, st) ==
    LET r == lookup_var(st.envs, env, identifier.symbol)
    IN  IF r.fatal THEN Panic(st) ELSE Ret(st, r.value)

\* eval_assignment
eval_assignment(node, env, st) ==
    CASE node.assignee.kind = "Identifier" ->
            LET v == eval(node.value, env, st)
                a == assign_var(v.envs, env, node.assignee.symbol, v.value)
            IN  IF v.fatal THEN v
                ELSE IF a.fatal THEN Panic(v)
                ELSE Ret(WithEnvs(v, a.envs), a.value)
      [] node.assignee.kind = "MemberExpr" ->
            LET member_expr == node.assignee
                pkind == member_expr.property.kind
                property == IF pkind = "Identifier" THEN member_expr.property.symbol
                            ELSE member_expr.property.string
                v == eval(node.value, env, st)
                o == lookup_var(v.envs, env, member_expr.object.symbol)
                obj == [o.value EXCEPT !.properties = Insert(@, property, v.value)]
                a == assign_var(v.envs, env, member_expr.object.symbol, obj)
            IN  IF member_expr.object.kind # "Identifier" THEN Panic(st)
                ELSE IF pkind \notin {"Identifier", "String"} THEN Panic(st)
                ELSE IF v.fatal THEN v
                ELSE IF o.fatal THEN Panic(v)
                ELSE IF o.value.type # "Object" THEN Panic(v)
                ELSE IF a.fatal THEN Panic(v)
                ELSE Ret(WithEnvs(v, a.envs), a.value)
      [] OTHER -> Panic(st)

\* the loop of eval_object_expr over the literal's properties
RECURSIVE object_insert(_, _, _, _, _)
object_insert(props, i, object, env, st) ==
    IF i > Len(props) THEN Ret(st, object)
    ELSE LET key == props[i].key
             v == IF props[i].value # NoNode THEN eval(props[i].value, env, st)
                  ELSE LET r == lookup_var(st.envs, env, key)
                       IN  IF r.fatal THEN Panic(st) ELSE Ret(st, r.value)
         IN  IF v.fatal THEN v
             ELSE object_insert(props, i + 1,
                                [object EXCEPT !.properties = Insert(@, key, v.value)], env, v)

\* eval_object_expr: HashMap::new() takes the next hasher
eval_object_expr(obj, env, st) ==
    LET object == [type |-> "Object", properties |-> EmptyMap,
                   hasher |-> IF st.hashers = <<>> THEN TRUE ELSE Head(st.hashers)]
        rest == [st EXCEPT !.hashers = IF @ = <<>> THEN @ ELSE Tail(@)]
    IN  object_insert(obj.properties, 1, object, env, rest)

\* mutant: an index_list that takes every negative index as out of range
index_list_no_last(obj, index, st) ==
    LET len == Len(obj.elements)
    IN  IF index = I32Max THEN Panic(st)
        ELSE IF len < index + 1 \/ index <= -1 THEN Panic(st)
        ELSE Ret(st, obj.elements[index + 1])

\* eval_member_expr on a list, from the range check on.  index + 1 on
\* i32::MAX panics in a build that checks overflow and wraps in one that does
\* not, where get() then finds no element and unwrap panics; elements.len()
\* - 1 on an empty list ends the same two ways.
index_list(obj, index, st) ==
    LET len == Len(obj.elements)
    IN  IF index = I32Max THEN Panic(st)
        ELSE IF len < index + 1 \/ index <= -2 THEN Panic(st)
        ELSE IF index = -1
        THEN IF len = 0 THEN Panic(st) ELSE Ret(st, obj.elements[len])
        ELSE Ret(st, obj.elements[index + 1])

\* eval_member_expr on an object
member_of_object(node, env, o) ==
    LET obj == o.value
        property == eval(node.property, env, o)
    IN  IF ~node.computed
        THEN IF node.property.kind # "Identifier" THEN Panic(o)
             ELSE IF node.property.symbol \notin DOMAIN obj.properties THEN Panic(o)
             ELSE Ret(o, obj.properties[node.property.symbol])
        ELSE IF property.fatal THEN property
        ELSE IF property.value.type # "String" THEN Panic(property)
        ELSE IF property.value.value \notin DOMAIN obj.properties THEN Panic(property)
        ELSE Ret(property, obj.properties[property.value.value])

\* eval_member_expr on a list
member_of_list(node, env, o) ==
    LET value == eval(node.property, env, o)
    IN  IF ~node.computed THEN Panic(o)
        ELSE IF value.fatal THEN value
        ELSE IF value.value.type # "Number" THEN Panic(value)
        ELSE index_list(o.value, AsI32(value.value.value), value)

\* eval_member_expr
eval_member_expr(node, env, st) ==
    LET o == eval(node.object, env, st)
    IN  IF o.fatal THEN o
        ELSE IF o.value.type = "Object" THEN member_of_object(node, env, o)
        ELSE IF o.value.type = "List" THEN member_of_list(node, env, o)
        ELSE Panic(o)

\* the native functions print and sleep (native_funcs.rs); output and the
\* passing of time are not part of the state
native_call(func, args, st) ==
    CASE func = "native_print" -> Ret(st, MK_NULL)
      [] func = "native_sleep" ->
            IF Len(args) # 1 THEN Panic(st)
            ELSE IF args[1].type # "Number" THEN Panic(st)
            ELSE Ret(st, MK_NULL)

\* FunctionValue::call declares the parameters in the new environment
RECURSIVE declare_parameters(_, _, _, _, _)
declare_parameters(parameters, args, i, new_env, st) ==
    IF i > Len(parameters) THEN st
    ELSE LET d == declare_var(st.envs[new_env], parameters[i], args[i], FALSE)
         IN  IF d.fatal THEN Panic(st)
             ELSE declare_parameters(parameters, args, i + 1, new_env,
                                     WithEnvs(st, [st.envs EXCEPT ![new_env] = d.env]))

\* mutant: the body runs to its end whatever continue_interpreting says
RECURSIVE call_body_to_end(_, _, _, _)
call_body_to_end(stmts, i, new_env, st) ==
    IF i > Len(stmts) \/ st.fatal THEN st
    ELSE call_body_to_end(stmts, i + 1, new_env, eval(stmts[i], new_env, st))

\* FunctionValue::call runs the body while the new environment's
\* continue_interpreting is set
RECURSIVE call_body(_, _, _, _)
call_body(stmts, i, new_env, st) ==
    IF i > Len(stmts) \/ st.fatal THEN st
    ELSE IF st.envs[new_env].continue_interpreting
    THEN call_body(stmts, i + 1, new_env, eval(stmts[i], new_env, st))
    ELSE st

\* FunctionValue::call: the new environment's parent is `env`, the caller's
call(func, env, args, st) ==
    LET a == Alloc(st.envs, env)
        new_env == a.env
        made == WithEnvs(st, a.envs)
        declared == declare_parameters(func.parameters, args, 1, new_env, made)
    IN  IF Len(args) # Len(func.parameters) THEN Panic(made)
        ELSE IF declared.fatal THEN declared
        ELSE call_body(func.body.body, 1, new_env, Ret(declared, MK_NULL))

\* the loop of eval_call over the arguments: st.value collects them
RECURSIVE eval_args(_, _, _, _, _)
eval_args(args, i, evaluated_args, env, st) ==
    IF i > Len(args) THEN Ret(st, evaluated_args)
    ELSE LET v == eval(args[i], env, st)
         IN  IF v.fatal THEN v
             ELSE eval_args(args, i + 1, Append(evaluated_args, v.value), env, v)

\* eval_call
eval_call(expr, env, st) ==
    LET a == eval_args(expr.args, 1, <<>>, env, st)
        evaluated_args == a.value
        f == eval(expr.caller, env, a)
        func == f.value
    IN  IF a.fatal THEN a
        ELSE IF f.fatal THEN f
        ELSE IF func.type = "NativeFn" THEN native_call(func.func, evaluated_args, f)
        ELSE IF func.type = "Function" THEN call(func, env, evaluated_args, f)
        ELSE Panic(f)

\* the loop of Body::run: every statement, whatever continue_interpreting says
RECURSIVE run_stmts(_, _, _, _)
run_stmts(stmts, i, env, st) ==
    IF i > Len(stmts) \/ st.fatal THEN st
    ELSE run_stmts(stmts, i + 1, env, eval(stmts[i], env, st))

\* mutant: Body::run that never makes an environment
run_in_place(body, env, make_env, st) ==
    <<run_stmts(body.body, 1, env, Ret(st, MK_NULL)), env>>

\* Body::run: the last value and the environment the body ran in
run(body, env, make_env, st) ==
    IF make_env
    THEN LET a == Alloc(st.envs, env)
         IN  <<run_stmts(body.body, 1, a.env, Ret(WithEnvs(st, a.envs), MK_NULL)), a.env>>
    ELSE <<run_stmts(body.body, 1, env, Ret(st, MK_NULL)), env>>

\* eval_program
eval_program(program, env, st) == run(program.body, env, FALSE, st)[1]

\* eval_var_declaration
eval_var_declaration(var_declaration, env, st) ==
    LET v == eval(var_declaration.value, env, st)
        d == declare_var(v.envs[env], var_declaration.identifier, v.value, var_declaration.constant)
    IN  IF v.fatal THEN v
        ELSE IF d.fatal THEN Panic(v)
        ELSE Ret(WithEnvs(v, [v.envs EXCEPT ![env] = d.env]), d.value)

\* eval_function_declaration
eval_function_declaration(function_declaration, env, st) ==
    LET function == [type |-> "Function",
                     name |-> function_declaration.name,
                     parameters |-> function_declaration.parameters,
                     declaration_env |-> env,
                     body |-> function_declaration.body]
        d == declare_var(st.envs[env], function.name, function, TRUE)
    IN  IF d.fatal THEN Panic(st)
        ELSE Ret(WithEnvs(st, [st.envs EXCEPT ![env] = d.env]), MK_NULL)

\* mutant: continue_interpreting is cleared on the parent of the environment
\* the statement runs in
eval_return_in_caller(return_stmt, env, st) ==
    LET v == eval(return_stmt.value, env, st)
    IN  IF is_global(st.envs[env]) THEN Panic(st)
        ELSE IF v.fatal THEN v
        ELSE Ret(WithEnvs(v, [v.envs EXCEPT ![v.envs[env].parent].continue_interpreting = FALSE]),
                 v.value)

\* eval_return: continue_interpreting is cleared on the environment the
\* statement runs in
eval_return(return_stmt, env, st) ==
    LET v == eval(return_stmt.value, env, st)
    IN  IF is_global(st.envs[env]) THEN Panic(st)
        ELSE IF v.fatal THEN v
        ELSE Ret(WithEnvs(v, [v.envs EXCEPT ![env].continue_interpreting = FALSE]), v.value)

\* eval_if
eval_if(if_stmt, env, st) ==
    LET c == eval(if_stmt.condition, env, st)
        r == IF as_bool(c.value) THEN run(if_stmt.body, env, TRUE, c)[1]
             ELSE IF if_stmt.else_stmt # NoNode THEN run(if_stmt.else_stmt, env, TRUE, c)[1]
             ELSE c
    IN  IF c.fatal THEN c
        ELSE IF r.fatal THEN r
        ELSE Ret(r, MK_NULL)

\* passes of one while loop the model follows
MaxPasses == 2

\* the loop of eval_while.  last_env is the environment the next condition
\* is evaluated in; cond_envs lists the environments the conditions so far
\* were evaluated in, a history the code does not keep.  r is what the run
\* of the body returned, c what the evaluation of the condition returned.
RECURSIVE while_loop(_, _, _, _, _)

while_body(while_stmt, env, cond_envs, r) ==
    IF r[1].fatal THEN <<r[1], cond_envs>>
    ELSE while_loop(while_stmt, env, r[2], cond_envs, r[1])

while_condition(while_stmt, env, cond_envs, c) ==
    IF c.fatal THEN <<c, cond_envs>>
    ELSE IF as_bool(c.value) THEN while_body(while_stmt, env, cond_envs, run(while_stmt.body, env, TRUE, c))
    ELSE <<Ret(c, MK_NULL), cond_envs>>

while_loop(while_stmt, env, last_env, cond_envs, st) ==
    IF Len(cond_envs) > MaxPasses THEN <<st, cond_envs>>
    ELSE while_condition(while_stmt, env, Append(cond_envs, last_env),
                         eval(while_stmt.condition, last_env, st))

\* eval_while: the final memory and cond_envs
eval_while(while_stmt, env, st) == while_loop(while_stmt, env, env, <<>>, st)

\* the loop of eval_for.  assign_var is called with a third argument, true,
\* that SharedEnvironment::assign_var of environment.rs does not take; the
\* call is modelled as the two-argument method.  a is what assign_var
\* returned.
RECURSIVE for_loop(_, _, _, _, _, _)

for_pass(for_stmt, iterable, ident, index, env, st, a) ==
    IF a.fatal THEN Panic(st)
    ELSE for_loop(for_stmt, iterable, ident, index + 1, env,
                  run(for_stmt.body, env, TRUE, WithEnvs(st, a.envs))[1])

for_loop(for_stmt, iterable, ident, index, env, st) ==
    IF st.fatal THEN st
    ELSE IF index = Len(iterable.elements) THEN Ret(st, MK_NULL)
    ELSE for_pass(for_stmt, iterable, ident, index, env, st,
                  assign_var(st.envs, env, ident, iterable.elements[index + 1]))

\* eval_for, iterable being what the evaluation of the iterable returned
for_iterable(for_stmt, env, iterable) ==
    IF iterable.fatal THEN iterable
    ELSE IF iterable.value.type # "List" THEN Panic(iterable)
    ELSE IF Len(iterable.value.elements) = 0 THEN Ret(iterable, MK_NULL)
    ELSE IF for_stmt.variable.kind # "Identifier" THEN Panic(iterable)
    ELSE for_loop(for_stmt, iterable.value, for_stmt.variable.symbol, 0, env, iterable)

\* eval_for
eval_for(for_stmt, env, st) == for_iterable(for_stmt, env, eval(for_stmt.iterable, env, st))

\* eval (runtime/interpreter.rs): the kinds it has no arm for are fatal
eval(ast_node, env, st) ==
    IF st.fatal THEN st
    ELSE CASE ast_node.kind = "NumericLiteral"      -> Ret(st, MK_NUMBER(ast_node.value))
           [] ast_node.kind = "String"              -> Ret(st, MK_STRING(ast_node.string))
           [] ast_node.kind = "BinaryExpr"          -> eval_binop_expr(ast_node, env, st)
           [] ast_node.kind = "ComparativeExpr"     -> eval_comp_expr(ast_node, env, st)
           [] ast_node.kind = "Identifier"          -> eval_identifier(ast_node, env, st)
           [] ast_node.kind = "Object"              -> eval_object_expr(ast_node, env, st)
           [] ast_node.kind = "MemberExpr"          -> eval_member_expr(ast_node, env, st)
           [] ast_node.kind = "AssignmentExpr"      -> eval_assignment(ast_node, env, st)
           [] ast_node.kind = "CallExpr"            -> eval_call(ast_node, env, st)
           [] ast_node.kind = "VarDeclaration"      -> eval_var_declaration(ast_node, env, st)
           [] ast_node.kind = "FunctionDeclaration" -> eval_function_declaration(ast_node, env, st)
           [] ast_node.kind = "Return"              -> eval_return(ast_node, env, st)
           [] ast_node.kind = "If"                  -> eval_if(ast_node, env, st)
           [] ast_node.kind = "Program"             -> eval_program(ast_node, env, st)
           [] OTHER                                 -> Panic(st)

(***************************************************************************)
(* The parser (frontend/parser.rs).  A Token is [value, token_type]; the    *)
(* state of a Parser is `tokens`, the tokens not yet consumed, which every  *)
(* operator takes in a record p and returns, with the node it built and     *)
(* `fatal`, set when the parser aborted the process.  Token sequences end   *)
(* with the EOF token, as the ones tokenize returns do.                     *)
(***************************************************************************)
Token(token_type, value) == [value |-> value, token_type |-> token_type]

\* the token tokenize ends every sequence with
EOF == Token("EOF", "EndOfFile")

(***************************************************************************)
(* The tokenizer (frontend/lexer.rs).  The source is a sequence of          *)
(* characters, each a string of length one; `lx` is the state of tokenize:  *)
(* the characters left in src, token_output, and whether it has aborted.    *)
(***************************************************************************)
Digits == {"0", "1", "2", "3", "4", "5", "6", "7", "8", "9"}

Letters ==
    {"a", "b", "c", "d", "e", "f", "g", "h", "i", "j", "k", "l", "m",
     "n", "o", "p", "q", "r", "s", "t", "u", "v", "w", "x", "y", "z",
     "A", "B", "C", "D", "E", "F", "G", "H", "I", "J", "K", "L", "M",
     "N", "O", "P", "Q", "R", "S", "T", "U", "V", "W", "X", "Y", "Z"}

\* lib.rs
is_skippable(src) == src \in {" ", "\n", "\t", "\r"}

is_valid_ident_char_start(src) == src \in Letters \/ src = "_"

is_valid_ident_char(src) == src \in Letters \/ src \in Digits \/ src = "_"

\* Tokenizer::get_keywords
get_keywords ==
    ("var" :> "Var") @@ ("const" :> "Const") @@ ("function" :> "Function") @@
    ("return" :> "Return") @@ ("if" :> "If") @@ ("else" :> "Else") @@
    ("while" :> "While") @@ ("for" :> "For") @@ ("in" :> "In")

\* the characters that are a token by themselves
Punctuation ==
    ("(" :> "OpenParen") @@ (")" :> "CloseParen") @@ ("{" :> "OpenBrace") @@
    ("}" :> "CloseBrace") @@ ("[" :> "OpenBracket") @@ ("]" :> "CloseBracket") @@
    ("," :> "Comma") @@ ("." :> "Dot") @@ (":" :> "Colon") @@
    ("+" :> "BinaryOperator") @@ ("-" :> "BinaryOperator") @@ ("*" :> "BinaryOperator") @@
    ("/" :> "BinaryOperator") @@ ("%" :> "BinaryOperator") @@ ("=" :> "Equals") @@
    ("<" :> "LeftAngleBracket") @@ (">" :> "RightAngleBracket") @@ ("!" :> "Bang") @@
    (";" :> "Semicolon")

\* src.remove(0)
remove0(lx) == [lx EXCEPT !.src = Tail(@)]

\* token_output.push
push(lx, token_type, value) == [lx EXCEPT !.token_output = Append(@, Token(token_type, value))]

\* fatal_error, or a panic of indexing or remove on an empty src
Abort(lx) == [lx EXCEPT !.fatal = TRUE]

\* the loop over the characters of a string literal, and the src.remove(0)
\* of the closing quote after it
RECURSIVE string_loop(_, _, _)
string_loop(lx, escaped, string) ==
    IF Len(lx.src) > 0 /\ (lx.src[1] # "\"" \/ escaped)
    THEN IF lx.src[1] = "\\" /\ ~escaped THEN string_loop(remove0(lx), TRUE, string)
         ELSE IF escaped
         THEN CASE lx.src[1] \in {"\\", "\"", "'"} -> string_loop(remove0(lx), FALSE, string \o lx.src[1])
                [] lx.src[1] = "n" -> string_loop(remove0(lx), FALSE, string \o "\n")
                [] lx.src[1] = "t" -> string_loop(remove0(lx), FALSE, string \o "\t")
                [] OTHER -> Abort(lx)
         ELSE string_loop(remove0(lx), FALSE, string \o lx.src[1])
    ELSE IF Len(lx.src) = 0 THEN Abort(lx)
    ELSE push(remove0(lx), "String", string)

\* the loop that builds a number
RECURSIVE number_loop(_, _)
number_loop(lx, num) ==
    IF Len(lx.src) > 0 /\ (lx.src[1] \in Digits \/ lx.src[1] = ".")
    THEN number_loop(remove0(lx), num \o lx.src[1])
    ELSE push(lx, "Number", num)

\* the loop that builds an identifier or a keyword
RECURSIVE identifier_loop(_, _)
identifier_loop(lx, identifier) ==
    IF Len(lx.src) > 0 /\ is_valid_ident_char(lx.src[1])
    THEN identifier_loop(remove0(lx), identifier \o lx.src[1])
    ELSE IF identifier \in DOMAIN get_keywords THEN push(lx, get_keywords[identifier], identifier)
    ELSE push(lx, "Identifier", identifier)

\* one pass of the while loop of tokenize.  After `//` the inner loop's
\* condition, src[0] != '\n' || src[0] != '\r', holds of every character:
\* it removes characters until src is empty and then indexes it, a panic.
tokenize_pass(lx) ==
    IF lx.src[1] = "/" /\ Len(lx.src) > 1 /\ lx.src[2] = "/" THEN Abort(lx)
    ELSE IF lx.src[1] \in DOMAIN Punctuation THEN push(remove0(lx), Punctuation[lx.src[1]], lx.src[1])
    ELSE IF lx.src[1] = "\"" THEN string_loop(remove0(lx), FALSE, "")
    ELSE IF lx.src[1] \in Digits THEN number_loop(lx, "")
    ELSE IF is_valid_ident_char_start(lx.src[1]) THEN identifier_loop(lx, "")
    ELSE IF is_skippable(lx.src[1]) THEN remove0(lx)
    ELSE Abort(lx)

RECURSIVE tokenize_loop(_)
tokenize_loop(lx) ==
    IF lx.fatal THEN lx
    ELSE IF Len(lx.src) > 0 THEN tokenize_loop(tokenize_pass(lx))
    ELSE push(lx, "EOF", "EndOfFile")

\* Tokenizer::tokenize
tokenize(source) == tokenize_loop([src |-> source, token_output |-> <<>>, fatal |-> FALSE])

\* str::parse::<f64> on the text of a Number token: the numerals of the
\* model; any other text stands for a malformed one such as 1.2.3
Numerals ==
    ("0" :> Num(0)) @@ ("1" :> Num(1)) @@ ("2" :> Num(2)) @@ ("3" :> Num(3)) @@
    ("4" :> Num(4)) @@ ("5" :> Num(5)) @@ ("1.5" :> <<3, 2>>) @@
    ("11" :> Num(11)) @@ ("111" :> Num(111)) @@ ("1111" :> Num(1111))

\* the parser aborted: fatal_error, or a panic of expect/unwrap/indexing
Die(p) == [node |-> NoNode, tokens |-> p.tokens, fatal |-> TRUE]

\* the parser state after a step that returned `node`
Out(p, node) == [node |-> node, tokens |-> p.tokens, fatal |-> p.fatal]

\* Parser::at
at(p) == p.tokens[1]

\* Parser::look_ahead
look_ahead(p, amount) == p.tokens[amount + 1]

\* Parser::eat.  Removing the last token leaves `tokens` empty: the next
\* at(), which every path reaches (produce_ast's not_eof at the latest),
\* indexes an empty Vec and panics.
eat(p) ==
    IF p.fatal THEN Die(p)
    ELSE [node |-> at(p), tokens |-> Tail(p.tokens), fatal |-> Len(p.tokens) = 1]

\* Parser::eat_expect: a mismatch below the Fatal level is logged and the
\* token at the front is returned without being consumed
eat_expect(p, token_type, level) ==
    IF p.fatal THEN Die(p)
    ELSE IF at(p).token_type # token_type
    THEN IF level = "Fatal" THEN Die(p) ELSE Out(p, at(p))
    ELSE eat(p)

\* Parser::not_eof
not_eof(p) == at(p).token_type # "EOF"

\* Parser::at_comparative_expr: the number of tokens of the comparison
\* operator at the front, 0 for None
at_comparative_expr(p) ==
    LET token1 == at(p).token_type
        token2 == look_ahead(p, 1).token_type
    IN  IF token1 = "EOF" THEN 0
        ELSE IF token1 = "Equals" /\ token2 = "Equals" THEN 2
        ELSE IF token1 = "RightAngleBracket" /\ token2 = "Equals" THEN 2
        ELSE IF token1 = "LeftAngleBracket" /\ token2 = "Equals" THEN 2
        ELSE IF token1 = "Bang" /\ token2 = "Equals" THEN 2
        ELSE IF token1 = "LeftAngleBracket" THEN 1
        ELSE IF token1 = "RightAngleBracket" THEN 1
        ELSE 0

\* the call of one method of the Parser, by its name
RECURSIVE parse(_, _)

\* Parser::parse_expr
parse_expr(p) == parse("parse_assignment_expr", p)

\* Parser::parse_primary_expr
parse_primary_expr(p) ==
    IF p.fatal THEN Die(p)
    ELSE LET token == at(p)
             e == eat(p)
         IN  CASE token.token_type = "Identifier" -> Out(e, Identifier(token.value))
               [] token.token_type = "Number" ->
                     IF token.value \in DOMAIN Numerals
                     THEN Out(e, NumericLiteral(Numerals[token.value]))
                     ELSE Die(e)
               [] token.token_type = "String" -> Out(e, StringLiteral(token.value))
               [] token.token_type = "OpenParen" ->
                     LET value == parse("parse_expr", e)
                         c == IF value.fatal THEN Die(value) ELSE eat_expect(value, "CloseParen", "Fatal")
                     IN  IF c.fatal THEN Die(c) ELSE Out(c, value.node)
               [] OTHER -> Die(p)

\* the loop of parse_member_expr over the further . and [ of a member chain
RECURSIVE member_chain(_)
member_chain(m) ==
    IF m.fatal THEN Die(m)
    ELSE IF at(m).token_type = "Dot"
    THEN LET property == parse("parse_primary_expr", eat(m))
         IN  IF property.fatal THEN Die(property)
             ELSE member_chain(Out(property, MemberExpr(m.node, property.node, FALSE)))
    ELSE IF at(m).token_type = "OpenBracket"
    THEN LET property == parse("parse_expr", eat(m))
             closed == IF property.fatal THEN Die(property) ELSE eat(property)
         IN  IF closed.fatal THEN Die(closed)
             ELSE member_chain(Out(closed, MemberExpr(m.node, property.node, TRUE)))
    ELSE m

\* Parser::parse_member_expr
parse_member_expr(p) ==
    IF p.fatal THEN Die(p)
    ELSE IF at(p).token_type = "Identifier"
    THEN LET object == parse("parse_primary_expr", p)
         IN  IF object.fatal THEN Die(object)
             ELSE IF at(object).token_type = "Dot"
             THEN LET property == parse("parse_primary_expr", eat(object))
                  IN  IF property.fatal THEN Die(property)
                      ELSE member_chain(Out(property, MemberExpr(object.node, property.node, FALSE)))
             ELSE IF at(object).token_type = "OpenBracket"
             THEN LET property == parse("parse_expr", eat(object))
                      closed == IF property.fatal THEN Die(property) ELSE eat(property)
                  IN  IF closed.fatal THEN Die(closed)
                      ELSE member_chain(Out(closed, MemberExpr(object.node, property.node, TRUE)))
             ELSE object
    ELSE parse("parse_primary_expr", p)

\* the loop of parse_arguments_list: a.node collects the arguments
RECURSIVE arguments_loop(_)
arguments_loop(a) ==
    IF a.fatal THEN Die(a)
    ELSE IF at(a).token_type = "Comma" /\ not_eof(a)
    THEN LET arg == parse("parse_assignment_expr", eat(a))
         IN  IF arg.fatal THEN Die(arg)
             ELSE arguments_loop(Out(arg, Append(a.node, arg.node)))
    ELSE a

\* Parser::parse_arguments_list
parse_arguments_list(p) ==
    LET first == parse("parse_assignment_expr", p)
    IN  IF first.fatal THEN Die(first) ELSE arguments_loop(Out(first, <<first.node>>))

\* Parser::parse_args
parse_args(p) ==
    IF p.fatal THEN Die(p)
    ELSE LET open == eat_expect(p, "OpenParen", "Fatal")
             args == IF open.fatal THEN Die(open)
                     ELSE IF at(open).token_type = "CloseParen" THEN Out(open, <<>>)
                     ELSE parse("parse_arguments_list", open)
             close == IF args.fatal THEN Die(args) ELSE eat_expect(args, "CloseParen", "Fatal")
         IN  IF close.fatal THEN Die(close) ELSE Out(close, args.node)

\* Parser::parse_call_expr: the caller is the node p holds
parse_call_expr(p) ==
    LET caller == p.node
        args == parse("parse_args", p)
        call_expr == CallExpr(caller, args.node)
    IN  IF args.fatal THEN Die(args)
        ELSE IF at(args).token_type = "OpenParen" THEN parse("parse_call_expr", Out(args, call_expr))
        ELSE Out(args, call_expr)

\* Parser::parse_call_member_expr
parse_call_member_expr(p) ==
    LET member == parse("parse_member_expr", p)
    IN  IF member.fatal THEN Die(member)
        ELSE IF at(member).token_type = "OpenParen" THEN parse("parse_call_expr", member)
        ELSE member

\* mutant: the loop of parse_multiplicative_expr taking + and - as well
RECURSIVE multiplicative_loop_any(_)
multiplicative_loop_any(left) ==
    IF left.fatal THEN Die(left)
    ELSE IF at(left).value \in {"*", "/", "%", "+", "-"}
    THEN LET operator == at(left).value
             right == parse("parse_call_member_expr", eat(left))
         IN  IF right.fatal THEN Die(right)
             ELSE multiplicative_loop_any(Out(right, BinaryExpr(left.node, operator, right.node)))
    ELSE left

\* mutant: a parse_multiplicative_expr that binds + and - as tightly as * / %
parse_multiplicative_expr_any(p) == multiplicative_loop_any(parse("parse_call_member_expr", p))

\* the loop of parse_multiplicative_expr: the test is on the token's text
RECURSIVE multiplicative_loop(_)
multiplicative_loop(left) ==
    IF left.fatal THEN Die(left)
    ELSE IF at(left).value \in {"*", "/", "%"}
    THEN LET operator == at(left).value
             right == parse("parse_call_member_expr", eat(left))
         IN  IF right.fatal THEN Die(right)
             ELSE multiplicative_loop(Out(right, BinaryExpr(left.node, operator, right.node)))
    ELSE left

\* Parser::parse_multiplicative_expr
parse_multiplicative_expr(p) == multiplicative_loop(parse("parse_call_member_expr", p))

\* the loop of parse_additive_expr: the test is on the token's text
RECURSIVE additive_loop(_)
additive_loop(left) ==
    IF left.fatal THEN Die(left)
    ELSE IF at(left).value \in {"+", "-"}
    THEN LET operator == at(left).value
             right == parse("parse_multiplicative_expr", eat(left))
         IN  IF right.fatal THEN Die(right)
             ELSE additive_loop(Out(right, BinaryExpr(left.node, operator, right.node)))
    ELSE left

\* Parser::parse_additive_expr
parse_additive_expr(p) == additive_loop(parse("parse_multiplicative_expr", p))

\* the loop of parse_object_expr: o.node collects the properties
RECURSIVE object_loop(_)

\* one turn of the loop after the key k: `key,` and `key }` are shorthand
\* properties, `key: value` is followed by a comma unless the brace closes
object_property(o, k, value) ==
    IF k.fatal THEN Die(k)
    ELSE IF at(k).token_type = "Comma"
    THEN object_loop(Out(eat(k), Append(o.node, Property(k.node.value, NoNode))))
    ELSE IF at(k).token_type = "CloseBrace"
    THEN object_loop(Out(k, Append(o.node, Property(k.node.value, NoNode))))
    ELSE IF value.fatal THEN Die(value)
    ELSE IF at(value).token_type # "CloseBrace"
    THEN object_loop(Out(eat_expect(value, "Comma", "Fatal"),
                         Append(o.node, Property(k.node.value, value.node))))
    ELSE object_loop(Out(value, Append(o.node, Property(k.node.value, value.node))))

object_key(o, k) ==
    object_property(o, k, parse("parse_expr", eat_expect(k, "Colon", "Fatal")))

object_loop(o) ==
    IF o.fatal THEN Die(o)
    ELSE IF not_eof(o) /\ at(o).token_type # "CloseBrace"
    THEN object_key(o, eat_expect(o, "Identifier", "Fatal"))
    ELSE o

\* Parser::parse_object_expr
parse_object_expr(p) ==
    IF p.fatal THEN Die(p)
    ELSE IF at(p).token_type # "OpenBrace" THEN parse("parse_additive_expr", p)
    ELSE LET properties == object_loop(Out(eat(p), <<>>))
             close == IF properties.fatal THEN Die(properties)
                      ELSE eat_expect(properties, "CloseBrace", "Error")
         IN  IF close.fatal THEN Die(close) ELSE Out(close, ObjectLiteral(properties.node))

\* the operator of a comparison: the texts of its one or two tokens
comparative_operator(p) ==
    IF at_comparative_expr(p) = 2 THEN at(p).value \o look_ahead(p, 1).value ELSE at(p).value

\* the loop of parse_comparative_expr
RECURSIVE comparative_loop(_)
comparative_loop(left) ==
    IF left.fatal THEN Die(left)
    ELSE IF at_comparative_expr(left) # 0 /\ not_eof(left)
    THEN LET operator == comparative_operator(left)
             eaten == IF at_comparative_expr(left) = 2 THEN eat(eat(left)) ELSE eat(left)
             right == parse("parse_object_expr", eaten)
         IN  IF right.fatal THEN Die(right)
             ELSE comparative_loop(Out(right, ComparativeExpr(left.node, operator, right.node)))
    ELSE left

\* Parser::parse_comparative_expr
parse_comparative_expr(p) ==
    LET left == parse("parse_object_expr", p)
    IN  IF left.fatal THEN Die(left)
        ELSE IF ~not_eof(left) /\ at_comparative_expr(left) # 0 THEN left
        ELSE comparative_loop(left)

\* Parser::parse_assignment_expr
parse_assignment_expr(p) ==
    LET left == parse("parse_comparative_expr", p)
        value == parse("parse_assignment_expr", eat(left))
        done == IF at(value).token_type = "Semicolon" THEN eat(value) ELSE value
    IN  IF left.fatal THEN Die(left)
        ELSE IF at(left).token_type = "Equals"
        THEN IF value.fatal THEN Die(value)
             ELSE IF done.fatal THEN Die(done)
             ELSE Out(done, AssignmentExpr(left.node, value.node))
        ELSE left

\* the loop of parse_body: b.node collects the statements; a parse_stmt that
\* yields None ends it
RECURSIVE body_loop(_)
body_loop(b) ==
    IF b.fatal THEN Die(b)
    ELSE IF at(b).token_type # "CloseBrace" /\ not_eof(b)
    THEN LET stmt == parse("parse_stmt", b)
         IN  IF stmt.fatal THEN Die(stmt)
             ELSE IF stmt.node # NoNode THEN body_loop(Out(stmt, Append(b.node, stmt.node)))
             ELSE Out(stmt, b.node)
    ELSE b

\* Parser::parse_body
parse_body(p) ==
    IF p.fatal THEN Die(p)
    ELSE LET open == eat_expect(p, "OpenBrace", "Fatal")
             body == IF open.fatal THEN Die(open) ELSE body_loop(Out(open, <<>>))
             close == IF body.fatal THEN Die(body) ELSE eat_expect(body, "CloseBrace", "Fatal")
         IN  IF close.fatal THEN Die(close) ELSE Out(close, Body(body.node))

\* Parser::parse_if
parse_if(p) ==
    LET condition == parse("parse_comparative_expr", eat(p))
        body == parse("parse_body", condition)
        after_else == eat(body)
        else_stmt ==
            IF at(body).token_type # "Else" THEN Out(body, NoNode)
            ELSE IF after_else.fatal THEN Die(after_else)
            ELSE IF at(after_else).token_type = "OpenBrace" THEN parse("parse_body", after_else)
            ELSE IF at(after_else).token_type = "If"
            THEN LET if_stmt == parse("parse_if", after_else)
                 IN  IF if_stmt.fatal THEN Die(if_stmt) ELSE Out(if_stmt, Body(<<if_stmt.node>>))
            ELSE Out(after_else, NoNode)
    IN  IF body.fatal THEN Die(body)
        ELSE IF else_stmt.fatal THEN Die(else_stmt)
        ELSE Out(else_stmt, IfStmt(condition.node, body.node, else_stmt.node))

\* Parser::parse_return
parse_return(p) ==
    LET value == parse("parse_expr", eat(p))
        semicolon == IF value.fatal THEN Die(value) ELSE eat_expect(value, "Semicolon", "Fatal")
    IN  IF semicolon.fatal THEN Die(semicolon) ELSE Out(semicolon, ReturnStmt(value.node))

\* Parser::parse_function_declaration
parse_function_declaration(p) ==
    LET name == eat_expect(eat(p), "Identifier", "Fatal")
        args == parse("parse_args", name)
        params == [i \in DOMAIN args.node |-> args.node[i].symbol]
        body == IF \E i \in DOMAIN args.node : args.node[i].kind # "Identifier" THEN Die(args)
                ELSE parse("parse_body", args)
    IN  IF args.fatal THEN Die(args)
        ELSE IF body.fatal THEN Die(body)
        ELSE Out(body, FunctionDeclaration(name.node.value, params, body.node))

\* Parser::parse_var_declaration
parse_var_declaration(p) ==
    LET is_constant == at(p).token_type = "Const"
        identifier == eat_expect(eat(p), "Identifier", "Fatal")
        eq == eat_expect(identifier, "Equals", "Fatal")
        value == IF eq.fatal THEN Die(eq) ELSE parse("parse_expr", eq)
        semicolon == IF value.fatal THEN Die(value) ELSE eat_expect(value, "Semicolon", "Error")
    IN  IF identifier.fatal THEN Die(identifier)
        ELSE IF at(identifier).token_type = "Semicolon"
        THEN IF is_constant THEN Die(identifier)
             ELSE Out(eat(identifier),
                      VarDeclaration(is_constant, identifier.node.value, Identifier("null")))
        ELSE IF semicolon.fatal THEN Die(semicolon)
        ELSE Out(semicolon, VarDeclaration(is_constant, identifier.node.value, value.node))

\* mutant: the arm of the semicolon returns None and leaves the token
parse_stmt_keep_semicolon(p) ==
    IF p.fatal THEN Die(p)
    ELSE LET token_type == at(p).token_type
         IN  CASE token_type \in {"Var", "Const"} -> parse("parse_var_declaration", p)
               [] token_type = "Function" -> parse("parse_function_declaration", p)
               [] token_type = "Return" -> parse("parse_return", p)
               [] token_type = "If" -> parse("parse_if", p)
               [] token_type = "Semicolon" -> Out(p, NoNode)
               [] token_type = "OpenBrace" -> parse("parse_body", p)
               [] OTHER -> parse("parse_expr", p)

\* Parser::parse_stmt: the node NoNode is the Option None
parse_stmt(p) ==
    IF p.fatal THEN Die(p)
    ELSE LET token_type == at(p).token_type
             eaten == eat(p)
         IN  CASE token_type \in {"Var", "Const"} -> parse("parse_var_declaration", p)
               [] token_type = "Function" -> parse("parse_function_declaration", p)
               [] token_type = "Return" -> parse("parse_return", p)
               [] token_type = "If" -> parse("parse_if", p)
               [] token_type = "Semicolon" ->
                     IF eaten.fatal THEN Die(eaten)
                     ELSE IF not_eof(eaten) /\ at(eaten).token_type # "CloseBrace"
                     THEN parse("parse_stmt", eaten)
                     ELSE Out(eaten, NoNode)
               [] token_type = "OpenBrace" -> parse("parse_body", p)
               [] OTHER -> parse("parse_expr", p)

\* Parser, method by method
parse(method, p) ==
    CASE method = "parse_expr" -> parse_expr(p)
      [] method = "parse_primary_expr" -> parse_primary_expr(p)
      [] method = "parse_member_expr" -> parse_member_expr(p)
      [] method = "parse_arguments_list" -> parse_arguments_list(p)
      [] method = "parse_args" -> parse_args(p)
      [] method = "parse_call_expr" -> parse_call_expr(p)
      [] method = "parse_call_member_expr" -> parse_call_member_expr(p)
      [] method = "parse_multiplicative_expr" -> parse_multiplicative_expr(p)
      [] method = "parse_additive_expr" -> parse_additive_expr(p)
      [] method = "parse_object_expr" -> parse_object_expr(p)
      [] method = "parse_comparative_expr" -> parse_comparative_expr(p)
      [] method = "parse_assignment_expr" -> parse_assignment_expr(p)
      [] method = "parse_body" -> parse_body(p)
      [] method = "parse_if" -> parse_if(p)
      [] method = "parse_return" -> parse_return(p)
      [] method = "parse_function_declaration" -> parse_function_declaration(p)
      [] method = "parse_var_declaration" -> parse_var_declaration(p)
      [] method = "parse_stmt" -> parse_stmt(p)

\* the loop of produce_ast: p.node collects the statements
RECURSIVE program_loop(_)

\* one turn of the loop after parse_stmt
program_push(p, stmt) ==
    IF stmt.fatal THEN Die(stmt)
    ELSE program_loop(Out(stmt, IF stmt.node # NoNode THEN Append(p.node, stmt.node) ELSE p.node))

program_loop(p) ==
    IF p.fatal THEN Die(p)
    ELSE IF not_eof(p) THEN program_push(p, parse("parse_stmt", p))
    ELSE p

\* the Program of the statements the loop collected
program_of(body) == IF body.fatal THEN Die(body) ELSE Out(body, Program(Body(body.node)))

\* Parser::produce_ast, from the tokens tokenize returned
produce_ast(token_output) ==
    program_of(program_loop([node |-> <<>>, tokens |-> token_output, fatal |-> FALSE]))

\* mutant: the new tokens are appended to the ones the Parser still holds
extend_tokens(self, token_output) == self \o token_output

\* self.tokens = ...: the assignment of produce_ast replaces the tokens the
\* Parser `self` held
set_tokens(self, token_output) == token_output

\* Parser::produce_ast on the Parser whose tokens are `self`; lx is what
\* tokenize returned
Parser_produce_ast(self, lx) ==
    IF lx.fatal THEN Die([tokens |-> self])
    ELSE produce_ast(set_tokens(self, lx.token_output))

(***************************************************************************)
(* EnvSpec: the environment operations called directly, on any environment *)
(* of the heap, with names and values drawn from small sets.               *)
(***************************************************************************)
EnvNames == {"x", "true"}

EnvValues == {MK_NUMBER(Num(1)), MK_NUMBER(Num(2))}

NoOp == [op |-> "none", env |-> None, name |-> "", value |-> MK_NULL, constant |-> FALSE]

Init ==
    /\ envs = <<Environment_new(None)>>
    /\ fatal = FALSE
    /\ last = NoOp
    /\ result = MK_NULL
    /\ tokens = <<>>
    /\ ast = NoNode
    /\ steps = 0

EnvEnabled == ~fatal /\ steps < MaxOps

NewEnvironment(parent) ==
    /\ EnvEnabled
    /\ Len(envs) < MaxEnvs
    /\ envs' = Alloc(envs, parent).envs
    /\ last' = [NoOp EXCEPT !.op = "new", !.env = parent]
    /\ steps' = steps + 1
    /\ UNCHANGED <<fatal, result, tokens, ast>>

DeclareVar(e, varname, value, constant) ==
    /\ EnvEnabled
    /\ LET r == declare_var(envs[e], varname, value, constant)
       IN  /\ envs' = [envs EXCEPT ![e] = r.env]
           /\ fatal' = r.fatal
           /\ result' = r.value
    /\ last' = [op |-> "declare_var", env |-> e, name |-> varname, value |-> value,
                constant |-> constant]
    /\ steps' = steps + 1
    /\ UNCHANGED <<tokens, ast>>

LookupVar(e, varname) ==
    /\ EnvEnabled
    /\ LET r == lookup_var(envs, e, varname)
       IN  /\ fatal' = r.fatal
           /\ result' = r.value
    /\ last' = [NoOp EXCEPT !.op = "lookup_var", !.env = e, !.name = varname]
    /\ steps' = steps + 1
    /\ UNCHANGED <<envs, tokens, ast>>

AssignVar(e, varname, value) ==
    /\ EnvEnabled
    /\ LET r == assign_var(envs, e, varname, value)
       IN  /\ envs' = r.envs
           /\ fatal' = r.fatal
           /\ result' = r.value
    /\ last' = [NoOp EXCEPT !.op = "assign_var", !.env = e, !.name = varname, !.value = value]
    /\ steps' = steps + 1
    /\ UNCHANGED <<tokens, ast>>

EnvNext ==
    \/ \E p \in DOMAIN envs : NewEnvironment(p)
    \/ \E e \in DOMAIN envs, n \in EnvNames, v \in EnvValues, c \in BOOLEAN : DeclareVar(e, n, v, c)
    \/ \E e \in DOMAIN envs, n \in EnvNames : LookupVar(e, n)
    \/ \E e \in DOMAIN envs, n \in EnvNames, v \in EnvValues : AssignVar(e, n, v)

EnvSpec == Init /\ [][EnvNext]_vars

(***************************************************************************)
(* Spec: the session of main.rs.  One global environment is made, and each *)
(* line read is parsed to a Program and evaluated in it; a fatal error     *)
(* ends the process.  The lines are drawn from Corpus, each held as the    *)
(* Program the parser makes of it.                                         *)
(***************************************************************************)
\* lines of one session
MaxSteps == 4
\* HashMaps one line may create
MaxObjects == 1

Line(stmts) == Program(Body(stmts))

N(i) == NumericLiteral(Num(i))

Call0(fname) == CallExpr(Identifier(fname), <<>>)

Corpus ==
 << [text |-> "var x = 1;",
     ast  |-> Line(<<VarDeclaration(FALSE, "x", N(1))>>)],
    [text |-> "const x = 1;",
     ast  |-> Line(<<VarDeclaration(TRUE, "x", N(1))>>)],
    [text |-> "x = 2;",
     ast  |-> Line(<<AssignmentExpr(Identifier("x"), N(2))>>)],
    [text |-> "x",
     ast  |-> Line(<<Identifier("x")>>)],
    [text |-> "function f() { if (true) { return 1; } return 2; }",
     ast  |-> Line(<<FunctionDeclaration("f", <<>>,
                        Body(<<IfStmt(Identifier("true"), Body(<<ReturnStmt(N(1))>>), NoNode),
                               ReturnStmt(N(2))>>))>>)],
    [text |-> "f()",
     ast  |-> Line(<<Call0("f")>>)],
    [text |-> "function make(n) { function inc() { return n + 1; } return inc; }",
     ast  |-> Line(<<FunctionDeclaration("make", <<"n">>,
                        Body(<<FunctionDeclaration("inc", <<>>,
                                  Body(<<ReturnStmt(BinaryExpr(Identifier("n"), "+", N(1)))>>)),
                               ReturnStmt(Identifier("inc"))>>))>>)],
    [text |-> "var f = make(5);",
     ast  |-> Line(<<VarDeclaration(FALSE, "f", CallExpr(Identifier("make"), <<N(5)>>))>>)],
    [text |-> "function g() { return x; }",
     ast  |-> Line(<<FunctionDeclaration("g", <<>>, Body(<<ReturnStmt(Identifier("x"))>>))>>)],
    [text |-> "function h() { var x = 2; return g(); }",
     ast  |-> Line(<<FunctionDeclaration("h", <<>>,
                        Body(<<VarDeclaration(FALSE, "x", N(2)), ReturnStmt(Call0("g"))>>))>>)],
    [text |-> "h()",
     ast  |-> Line(<<Call0("h")>>)],
    [text |-> "if (true) { var x = 2; }",
     ast  |-> Line(<<IfStmt(Identifier("true"), Body(<<VarDeclaration(FALSE, "x", N(2))>>), NoNode)>>)],
    [text |-> "if (false) { var y = 1; } else { var y = 2; }",
     ast  |-> Line(<<IfStmt(Identifier("false"), Body(<<VarDeclaration(FALSE, "y", N(1))>>),
                            Body(<<VarDeclaration(FALSE, "y", N(2))>>))>>)],
    [text |-> "y",
     ast  |-> Line(<<Identifier("y")>>)],
    [text |-> "var o = { a: 1, b: x };",
     ast  |-> Line(<<VarDeclaration(FALSE, "o",
                        ObjectLiteral(<<Property("a", N(1)), Property("b", Identifier("x"))>>))>>)] >>

\* the hashers the HashMaps made while one line runs may get
Hashers == [1..MaxObjects -> BOOLEAN]

\* the global environment of main.rs
GlobalEnv == 1

\* one turn of the loop of main.rs: the line's Program is evaluated in the
\* global environment
RunLine(i, hashers) ==
    /\ ~fatal
    /\ steps < MaxSteps
    /\ LET line == Corpus[i]
           r == eval(line.ast, GlobalEnv,
                     [value |-> MK_NULL, envs |-> envs, fatal |-> FALSE, hashers |-> hashers])
       IN  /\ envs' = r.envs
           /\ fatal' = r.fatal
           /\ result' = r.value
           /\ ast' = line.ast
           /\ last' = [NoOp EXCEPT !.op = "eval", !.env = GlobalEnv, !.name = line.text]
    /\ steps' = steps + 1
    /\ UNCHANGED tokens

Next == \E i \in DOMAIN Corpus, hashers \in Hashers : RunLine(i, hashers)

Spec == Init /\ [][Next]_vars

(***************************************************************************)
(* The scope chain, stated without resolve: the environments from e up to  *)
(* the root, and the first of them that binds a name.                      *)
(***************************************************************************)
RECURSIVE Chain(_, _)
Chain(heap, e) ==
    IF heap[e].parent = None THEN <<e>> ELSE <<e>> \o Chain(heap, heap[e].parent)

Owners(heap, e, varname) ==
    {i \in DOMAIN Chain(heap, e) : varname \in DOMAIN heap[Chain(heap, e)[i]].variables}

Innermost(heap, e, varname) ==
    LET own == Owners(heap, e, varname)
    IN  IF own = {} THEN None
        ELSE Chain(heap, e)[CHOOSE i \in own : \A j \in own : i <= j]

\* C1: an assign_var whose name is constant in the scope that owns it is a
\* fatal error and leaves every binding as it was.
C1_ConstantAssignIsFatal ==
    [][(/\ last'.op = "assign_var"
        /\ Innermost(envs, last'.env, last'.name) # None
        /\ last'.name \in get_constants(envs[Innermost(envs, last'.env, last'.name)]))
       => (fatal' /\ envs' = envs)]_vars

\* C7: declare_var is fatal exactly when the environment it is called on
\* already binds the name; otherwise the new binding is the one a lookup from
\* that environment finds, and no other environment changes.
C7_DeclareVarSameScopeOnly ==
    [][last'.op = "declare_var" =>
        LET e == last'.env
            n == last'.name
        IN  /\ fatal' <=> n \in DOMAIN envs[e].variables
            /\ fatal' => envs' = envs
            /\ ~fatal' =>
                /\ Innermost(envs', e, n) = e
                /\ lookup_var(envs', e, n) = [fatal |-> FALSE, value |-> last'.value]
                /\ \A a \in DOMAIN envs : a # e => envs'[a] = envs[a]
                /\ \A m \in DOMAIN envs[e].variables : envs'[e].variables[m] = envs[e].variables[m]]_vars

\* a declaration succeeded in an environment one of whose ancestors binds the name
C7_ShadowingDeclared ==
    /\ last.op = "declare_var"
    /\ ~fatal
    /\ Cardinality(Owners(envs, last.env, last.name)) >= 2
    /\ envs[last.env].variables[last.name] # envs[Chain(envs, last.env)[Len(Chain(envs, last.env))]].variables[last.name]

\* C8: lookup_var reads, and assign_var writes, the innermost environment of
\* the chain that binds the name; when none does the operation is fatal and
\* nothing is modified.
C8_InnermostOwner ==
    [][last'.op \in {"lookup_var", "assign_var"} =>
        LET e == last'.env
            n == last'.name
            o == Innermost(envs, e, n)
        IN  /\ o = None => (fatal' /\ envs' = envs)
            /\ (o # None /\ last'.op = "lookup_var") =>
                 (~fatal' /\ result' = envs[o].variables[n] /\ envs' = envs)
            /\ (o # None /\ last'.op = "assign_var" /\ ~fatal') =>
                 envs' = [envs EXCEPT ![o].variables[n] = last'.value]
            /\ (o # None /\ last'.op = "assign_var" /\ fatal') => envs' = envs]_vars

\* an assignment went through from a scope below the owner, past which a
\* further ancestor binds the name too
C8_AssignedThroughShadow ==
    /\ last.op = "assign_var"
    /\ ~fatal
    /\ Cardinality(Owners(envs, last.env, last.name)) >= 2
    /\ Innermost(envs, last.env, last.name) # last.env
    /\ envs[Innermost(envs, last.env, last.name)].variables[last.name] = last.value

\* C9: an assign_var, fatal or not, leaves the names bound and the constant
\* names of every environment as they were; the only value that may change is
\* that of the assigned name in the environment that owns it.
C9_AssignCreatesNoBinding ==
    [][last'.op = "assign_var" =>
        /\ Len(envs') = Len(envs)
        /\ \A e \in DOMAIN envs :
            /\ DOMAIN envs'[e].variables = DOMAIN envs[e].variables
            /\ envs'[e].constants = envs[e].constants
            /\ envs'[e].parent = envs[e].parent
            /\ \A n \in DOMAIN envs[e].variables :
                 envs'[e].variables[n] # envs[e].variables[n] =>
                   (n = last'.name /\ e = Innermost(envs, last'.env, n))]_vars

\* an assignment went through from an environment that does not bind the name itself
C9_AssignedFromChild ==
    /\ last.op = "assign_var"
    /\ ~fatal
    /\ last.name \notin DOMAIN envs[last.env].variables
    /\ result = last.value

(***************************************************************************)
(* Claims about the lines of a session (Spec).                             *)
(***************************************************************************)
\* the line the step has just run
Ran(text) == last'.op = "eval" /\ last'.name = text

\* the global environment binds the name to a user function of that name
GlobalFunction(varname, fname) ==
    /\ varname \in DOMAIN envs[GlobalEnv].variables
    /\ envs[GlobalEnv].variables[varname].type = "Function"
    /\ envs[GlobalEnv].variables[varname].name = fname

\* C2: after `var x = 1;` the line `x = 2;` is not fatal, yields 2, and a
\* later lookup of x from the global scope yields 2.
C2_VarAssignSucceeds ==
    [][(/\ Ran("x = 2;")
        /\ "x" \in DOMAIN envs[GlobalEnv].variables
        /\ "x" \notin get_constants(envs[GlobalEnv]))
       => (/\ ~fatal'
           /\ result' = MK_NUMBER(Num(2))
           /\ lookup_var(envs', GlobalEnv, "x") = [fatal |-> FALSE, value |-> MK_NUMBER(Num(2))])]_vars

\* C3: with f declared as `function f() { if (true) { return 1; } return 2; }`
\* the call f() yields 1: the return inside the if ends the function body.
C3_ReturnInIfEndsCall ==
    [][(Ran("f()") /\ GlobalFunction("f", "f")) => (~fatal' /\ result' = MK_NUMBER(Num(1)))]_vars

\* C4: with f bound to the function inc that make(5) returned, the call f()
\* reads the parameter n of that call of make and yields 6, without a fatal
\* error.
C4_ClosureReadsDefiningCall ==
    [][(Ran("f()") /\ GlobalFunction("f", "inc")) => (~fatal' /\ result' = MK_NUMBER(Num(6)))]_vars

\* C5: the environment of a call has the function's declaration environment
\* as its parent: with x, g and h declared in the global scope, h() (which
\* declares its own x and returns g()) yields the global x, and both calls'
\* environments are children of the global scope.
C5_CallParentIsDeclarationEnv ==
    [][(/\ Ran("h()")
        /\ GlobalFunction("g", "g")
        /\ GlobalFunction("h", "h")
        /\ "x" \in DOMAIN envs[GlobalEnv].variables)
       => (/\ ~fatal'
           /\ result' = envs[GlobalEnv].variables["x"]
           /\ \A e \in (Len(envs) + 1)..Len(envs') : envs'[e].parent = GlobalEnv)]_vars

\* the names the bodies of an if statement declare
DeclaredIn(body) ==
    IF body = NoNode THEN {}
    ELSE {body.body[i].identifier : i \in {j \in DOMAIN body.body : body.body[j].kind = "VarDeclaration"}}

MaxFiles == 1

Operators == {"+", "-", "*", "%", "<", "==", ">=", "="}

Operands == << <<"2", "3", "4">>, <<"1", "2", "true">>, <<"x", "2", "3">> >>

\* no parentheses, ( a op1 b ) op2 c, a op1 ( b op2 c )
Shapes == {"a.b.c", "(a.b).c", "a.(b.c)"}

Lines == [shape : Shapes, operands : DOMAIN Operands, op1 : Operators, op2 : Operators]

\* the tokens of an operand and of an operator (lexer.rs, tokenize)
OperandToken(text) ==
    IF text \in DOMAIN Numerals THEN <<Token("Number", text)>> ELSE <<Token("Identifier", text)>>

OperatorTokens(op) ==
    CASE op \in {"+", "-", "*", "/", "%"} -> <<Token("BinaryOperator", op)>>
      [] op = "="  -> <<Token("Equals", "=")>>
      [] op = "<"  -> <<Token("LeftAngleBracket", "<")>>
      [] op = ">"  -> <<Token("RightAngleBracket", ">")>>
      [] op = "==" -> <<Token("Equals", "="), Token("Equals", "=")>>
      [] op = "!=" -> <<Token("Bang", "!"), Token("Equals", "=")>>
      [] op = "<=" -> <<Token("LeftAngleBracket", "<"), Token("Equals", "=")>>
      [] op = ">=" -> <<Token("RightAngleBracket", ">"), Token("Equals", "=")>>

\* const x = 1 ;
DeclareX ==
    <<Token("Const", "const"), Token("Identifier", "x"), Token("Equals", "="),
      Token("Number", "1"), Token("Semicolon", ";")>>

LineTokens(line) ==
    LET a == OperandToken(Operands[line.operands][1])
        b == OperandToken(Operands[line.operands][2])
        c == OperandToken(Operands[line.operands][3])
        op1 == OperatorTokens(line.op1)
        op2 == OperatorTokens(line.op2)
        open == <<Token("OpenParen", "(")>>
        close == <<Token("CloseParen", ")")>>
        prefix == IF Operands[line.operands][1] = "x" THEN DeclareX ELSE <<>>
        expr == CASE line.shape = "a.b.c"   -> a \o op1 \o b \o op2 \o c
                  [] line.shape = "(a.b).c" -> open \o a \o op1 \o b \o close \o op2 \o c
                  [] line.shape = "a.(b.c)" -> a \o op1 \o open \o b \o op2 \o c \o close
    IN  prefix \o expr \o <<EOF>>

\* the `file` branch of main.rs after the evaluation: r is what eval returned
Evaluated(ast_, fresh, r) ==
    /\ tokens' = ast_.tokens
    /\ IF ast_.fatal
       THEN /\ ast' = NoNode
            /\ envs' = fresh
            /\ fatal' = TRUE
            /\ result' = MK_NULL
       ELSE /\ ast' = ast_.node
            /\ envs' = r.envs
            /\ fatal' = r.fatal
            /\ result' = r.value

\* the `file` branch of main.rs after the parse: the Program is evaluated in
\* the environment made for the file
Parsed(ast_, fresh) ==
    Evaluated(ast_, fresh,
              eval(ast_.node, GlobalEnv,
                   [value |-> MK_NULL, envs |-> fresh, fatal |-> FALSE, hashers |-> <<>>]))

\* the `file` branch of the loop of main.rs
RunFile(line) ==
    /\ ~fatal
    /\ steps < MaxFiles
    /\ Parsed(produce_ast(LineTokens(line)), <<Environment_new(None)>>)
    /\ last' = [op |-> "file", line |-> line]
    /\ steps' = steps + 1

ParseNext == \E line \in Lines : RunFile(line)

ParseSpec == Init /\ [][ParseNext]_vars

(***************************************************************************)
(* Binding strength, stated without the parser.                            *)
(***************************************************************************)
Level(op) ==
    CASE op \in {"*", "/", "%"} -> 3
      [] op \in {"+", "-"} -> 2
      [] op \in {"==", "!=", "<", ">", "<=", ">="} -> 1
      [] op = "=" -> 0

Operation(left, op, right) ==
    CASE Level(op) >= 2 -> BinaryExpr(left, op, right)
      [] Level(op) = 1 -> ComparativeExpr(left, op, right)
      [] Level(op) = 0 -> AssignmentExpr(left, right)

OperandNode(text) ==
    IF text \in DOMAIN Numerals THEN NumericLiteral(Numerals[text]) ELSE Identifier(text)

\* the tree of a line: parentheses first, then the tighter operator first,
\* equal levels from the left, assignments from the right
Grouped(line) ==
    LET a == OperandNode(Operands[line.operands][1])
        b == OperandNode(Operands[line.operands][2])
        c == OperandNode(Operands[line.operands][3])
        left_first == Operation(Operation(a, line.op1, b), line.op2, c)
        right_first == Operation(a, line.op1, Operation(b, line.op2, c))
    IN  CASE line.shape = "(a.b).c" -> left_first
          [] line.shape = "a.(b.c)" -> right_first
          [] line.shape = "a.b.c" ->
                IF Level(line.op1) > Level(line.op2) \/ (Level(line.op1) = Level(line.op2) /\ Level(line.op1) # 0)
                THEN left_first
                ELSE right_first

\* C10: every line `a op1 b op2 c` parses, and its last statement is the
\* tree that groups by parentheses first and then by binding strength,
\* * / % over + - over comparisons over assignment; 2 + 3 * 4 evaluates to
\* 14, (2 + 3) * 4 to 20 and 1 < 2 == true, parsed as (1 < 2) == true, to
\* true.
C10_BindingStrength ==
    last.op = "file" =>
        /\ ast # NoNode
        /\ ast.body.body[Len(ast.body.body)] = Grouped(last.line)
        /\ last.line = [shape |-> "a.b.c", operands |-> 1, op1 |-> "+", op2 |-> "*"]
             => (~fatal /\ result = MK_NUMBER(Num(14)))
        /\ last.line = [shape |-> "(a.b).c", operands |-> 1, op1 |-> "+", op2 |-> "*"]
             => (~fatal /\ result = MK_NUMBER(Num(20)))
        /\ last.line = [shape |-> "a.b.c", operands |-> 2, op1 |-> "<", op2 |-> "=="]
             => (/\ ~fatal
                 /\ result = MK_BOOL(TRUE)
                 /\ ast.body.body[1] =
                      ComparativeExpr(ComparativeExpr(N(1), "<", N(2)), "==", Identifier("true")))

\* 2 + 3 * 4 has been parsed and evaluated to 14
C10_MultiplicationFirst ==
    /\ last.op = "file"
    /\ last.line = [shape |-> "a.b.c", operands |-> 1, op1 |-> "+", op2 |-> "*"]
    /\ ast.body.body[1] = BinaryExpr(N(2), "+", BinaryExpr(N(3), "*", N(4)))
    /\ ~fatal
    /\ result = MK_NUMBER(Num(14))

(***************************************************************************)
(* ListSpec: a list is declared in the global environment as `l` and       *)
(* member expressions on l are evaluated.                                  *)
(***************************************************************************)
MaxList == 3

ListElements == {MK_NUMBER(Num(7)), MK_STRING("s")}

Lists == UNION {[1..n -> ListElements] : n \in 1..MaxList}

\* the property expressions: the integers around the range of an index, a
\* fraction, the greatest i32 and a string
Indices == (-3)..(MaxList + 1)

Properties ==
    {NumericLiteral(Num(i)) : i \in Indices}
        \cup {NumericLiteral(<<3, 2>>), NumericLiteral(Num(I32Max)), StringLiteral("0"), Identifier("l")}

DeclareList(elements) ==
    /\ ~fatal
    /\ "l" \notin DOMAIN envs[1].variables
    /\ LET r == declare_var(envs[1], "l", MK_LIST(elements), FALSE)
       IN  /\ envs' = [envs EXCEPT ![1] = r.env]
           /\ fatal' = r.fatal
           /\ result' = r.value
    /\ last' = [op |-> "declare_var", name |-> "l"]
    /\ UNCHANGED <<tokens, ast, steps>>

\* eval of the member expression l[property] or l.property
EvalMember(property, computed) ==
    /\ ~fatal
    /\ steps < MaxOps
    /\ "l" \in DOMAIN envs[1].variables
    /\ LET r == eval(MemberExpr(Identifier("l"), property, computed), 1,
                     [value |-> MK_NULL, envs |-> envs, fatal |-> FALSE, hashers |-> <<>>])
       IN  /\ envs' = r.envs
           /\ fatal' = r.fatal
           /\ result' = r.value
    /\ ast' = MemberExpr(Identifier("l"), property, computed)
    /\ last' = [op |-> "member", name |-> "l"]
    /\ steps' = steps + 1
    /\ UNCHANGED tokens

ListNext ==
    \/ \E elements \in Lists : DeclareList(elements)
    \/ \E property \in Properties, computed \in BOOLEAN : EvalMember(property, computed)

ListSpec == Init /\ [][ListNext]_vars

\* the list l holds, and the integer the last member expression indexed it with
ListOfL == envs[1].variables["l"].elements

IndexedByInteger ==
    /\ last.op = "member"
    /\ ast.computed
    /\ ast.property.kind = "NumericLiteral"
    /\ ast.property.value[2] = 1

\* C11: for a list of length n >= 1 and an integer index i, l[i] is element
\* i when 0 <= i <= n - 1, element n - 1 when i = -1, and a fatal error when
\* i >= n or i <= -2.
C11_ListIndexing ==
    IndexedByInteger =>
        LET i == ast.property.value[1]
            n == Len(ListOfL)
        IN  /\ n >= 1
            /\ (0 <= i /\ i <= n - 1) => (~fatal /\ result = ListOfL[i + 1])
            /\ i = -1 => (~fatal /\ result = ListOfL[n])
            /\ (i >= n \/ i <= -2) => fatal

\* l[-1] on a list of two or more elements yielded the last one, which is
\* not the first
C11_LastByMinusOne ==
    /\ IndexedByInteger
    /\ ast.property.value[1] = -1
    /\ Len(ListOfL) >= 2
    /\ ~fatal
    /\ result = ListOfL[Len(ListOfL)]
    /\ result # ListOfL[1]

(***************************************************************************)
(* ExprSpec: REPL lines that are one binary or one comparative expression   *)
(* over literal operands and the names of the global scope.  An object     *)
(* literal operand is written in parentheses, `({ a: 1 }) == ({ a: 1 })`,  *)
(* which parse_primary_expr hands to parse_expr and which leave no node.    *)
(***************************************************************************)
\* expression lines of one session
MaxExprs == 2

ExprOperands ==
    {N(5), StringLiteral("x"), Identifier("true"), Identifier("null"), Identifier("print"),
     ObjectLiteral(<<Property("a", N(1)), Property("b", N(2))>>),
     ObjectLiteral(<<Property("b", N(2)), Property("a", N(1))>>)}

BinaryOperators == {"+", "-", "*", "/", "%"}

ComparativeOperators == {"==", "!=", "<", ">", "<=", ">="}

\* the hashers of the HashMaps the operands l and r create: one for each
\* object literal
ExprHashers(l, r) ==
    [1..Cardinality({i \in 1..2 : <<l, r>>[i].kind = "Object"}) -> BOOLEAN]

\* one turn of the REPL loop of main.rs on the expression `node`
EvalExpression(node, hashers) ==
    /\ ~fatal
    /\ steps < MaxExprs
    /\ LET r == eval(Line(<<node>>), GlobalEnv,
                     [value |-> MK_NULL, envs |-> envs, fatal |-> FALSE, hashers |-> hashers])
       IN  /\ envs' = r.envs
           /\ fatal' = r.fatal
           /\ result' = r.value
    /\ ast' = node
    /\ steps' = steps + 1
    /\ UNCHANGED tokens

EvalBinary(l, op, r, hashers) ==
    /\ EvalExpression(BinaryExpr(l, op, r), hashers)
    /\ last' = [op |-> "binary", hashers |-> hashers]

EvalComparison(l, op, r, hashers) ==
    /\ EvalExpression(ComparativeExpr(l, op, r), hashers)
    /\ last' = [op |-> "comparison", hashers |-> hashers]

ExprNext ==
    \/ \E l \in ExprOperands, r \in ExprOperands, op \in BinaryOperators :
            \E hashers \in ExprHashers(l, r) : EvalBinary(l, op, r, hashers)
    \/ \E l \in ExprOperands, r \in ExprOperands, op \in ComparativeOperators :
            \E hashers \in ExprHashers(l, r) : EvalComparison(l, op, r, hashers)

ExprSpec == Init /\ [][ExprNext]_vars

\* a string or numeric literal as the program writes its value
Written(node) ==
    IF node.kind = "String" THEN node.string ELSE F64ToString(node.value)

\* C12: for a string s and a number n, s + n is s followed by the string
\* form of n, and n + s is the string form of n followed by s.
C12_ConcatenationInOperandOrder ==
    (/\ last.op = "binary"
     /\ ast.operator = "+"
     /\ {ast.left.kind, ast.right.kind} = {"String", "NumericLiteral"})
        => /\ ~fatal
           /\ result = MK_STRING(Written(ast.left) \o Written(ast.right))

\* the key/value pairs an object literal writes
Content(node) == {<<node.properties[i].key, node.properties[i].value>> : i \in DOMAIN node.properties}

\* C13: two object values built from two separate object literals with the
\* same keys and equal values compare equal under ==, whatever the number
\* and the written order of the properties.
C13_SameContentObjectsEqual ==
    (/\ last.op = "comparison"
     /\ ast.operator = "=="
     /\ ast.left.kind = "Object"
     /\ ast.right.kind = "Object"
     /\ Content(ast.left) = Content(ast.right))
        => /\ ~fatal
           /\ result = MK_BOOL(TRUE)

\* the runtime type of the value an operand of ExprOperands denotes
OperandType(node) ==
    CASE node.kind = "NumericLiteral" -> "Number"
      [] node.kind = "String"         -> "String"
      [] node.kind = "Object"         -> "Object"
      [] node.kind = "Identifier"     -> envs[GlobalEnv].variables[node.symbol].type

\* C15: when the operands of a comparison have different runtime types,
\* ==, <, >, <= and >= are false and != is true, and there is no fatal error.
C15_DifferentTypesNeverCompare ==
    (/\ last.op = "comparison"
     /\ OperandType(ast.left) # OperandType(ast.right))
        => /\ ~fatal
           /\ result = MK_BOOL(ast.operator = "!=")

\* true < 5 and true != 5 were evaluated: the first is false although
\* BooleanValue has no ordering, the second is true
C15_BooleanAgainstNumber ==
    /\ last.op = "comparison"
    /\ ast.left = Identifier("true")
    /\ ast.right = N(5)
    /\ ast.operator = "!="
    /\ ~fatal
    /\ result = MK_BOOL(TRUE)

\* C26: for two operands of the same runtime type that are equal, two equal
\* numbers, strings or booleans or two nulls, <= and >= evaluate to true.
C26_EqualOperandsWithinOrder ==
    (/\ last.op = "comparison"
     /\ ast.operator \in {"<=", ">="}
     /\ OperandType(ast.left) \in {"Number", "String", "Boolean", "Null"}
     /\ OperandType(ast.left) = OperandType(ast.right)
     /\ ast.left = ast.right)
        => /\ ~fatal
           /\ result = MK_BOOL(TRUE)

(***************************************************************************)
(* FnSpec: a REPL session over lines that declare functions, call them,    *)
(* compare them and use return at the top level.                            *)
(***************************************************************************)
Eq(a, b) == Line(<<ComparativeExpr(Identifier(a), "==", Identifier(b))>>)

FnCorpus ==
 << [text |-> "function mk() { function inner() { return 1; } return inner; }",
     ast  |-> Line(<<FunctionDeclaration("mk", <<>>,
                        Body(<<FunctionDeclaration("inner", <<>>, Body(<<ReturnStmt(N(1))>>)),
                               ReturnStmt(Identifier("inner"))>>))>>)],
    [text |-> "function other() { return 1; }",
     ast  |-> Line(<<FunctionDeclaration("other", <<>>, Body(<<ReturnStmt(N(1))>>))>>)],
    [text |-> "var a = mk();",
     ast  |-> Line(<<VarDeclaration(FALSE, "a", Call0("mk"))>>)],
    [text |-> "var b = mk();",
     ast  |-> Line(<<VarDeclaration(FALSE, "b", Call0("mk"))>>)],
    [text |-> "a == b",      ast |-> Eq("a", "b")],
    [text |-> "a == a",      ast |-> Eq("a", "a")],
    [text |-> "mk == a",     ast |-> Eq("mk", "a")],
    [text |-> "mk == other", ast |-> Eq("mk", "other")],
    [text |-> "return 1;",
     ast  |-> Line(<<ReturnStmt(N(1))>>)],
    [text |-> "if (true) { return 1; }",
     ast  |-> Line(<<IfStmt(Identifier("true"), Body(<<ReturnStmt(N(1))>>), NoNode)>>)] >>

\* one turn of the loop of main.rs on line i of FnCorpus
RunFnLine(i) ==
    /\ ~fatal
    /\ steps < MaxSteps
    /\ LET r == eval(FnCorpus[i].ast, GlobalEnv,
                     [value |-> MK_NULL, envs |-> envs, fatal |-> FALSE, hashers |-> <<>>])
       IN  /\ envs' = r.envs
           /\ fatal' = r.fatal
           /\ result' = r.value
    /\ ast' = FnCorpus[i].ast
    /\ last' = [NoOp EXCEPT !.op = "eval", !.env = GlobalEnv, !.name = FnCorpus[i].text]
    /\ steps' = steps + 1
    /\ UNCHANGED tokens

FnNext == \E i \in DOMAIN FnCorpus : RunFnLine(i)

FnSpec == Init /\ [][FnNext]_vars

\* the value the global environment binds to a name
Global(name) == envs[GlobalEnv].variables[name]

\* the last line compared two names that the global environment binds to
\* user functions
ComparedFunctions ==
    /\ last.op = "eval"
    /\ ast.body.body # <<>>
    /\ ast.body.body[1].kind = "ComparativeExpr"
    /\ ~fatal
    /\ Global(ast.body.body[1].left.symbol).type = "Function"
    /\ Global(ast.body.body[1].right.symbol).type = "Function"

\* C14: two user-function values compare equal under == exactly when they
\* captured the same environment.
C14_FunctionsEqualBySameEnvironment ==
    ComparedFunctions =>
        result = MK_BOOL(Global(ast.body.body[1].left.symbol).declaration_env
                            = Global(ast.body.body[1].right.symbol).declaration_env)

\* a == b was false although a and b hold functions of one name, parameter
\* list and body, made by two calls of mk
C14_TwinsUnequal ==
    /\ ComparedFunctions
    /\ last.name = "a == b"
    /\ Global("a").name = Global("b").name
    /\ Global("a").parameters = Global("b").parameters
    /\ Global("a").body = Global("b").body
    /\ Global("a").declaration_env # Global("b").declaration_env
    /\ result = MK_BOOL(FALSE)

\* C18: executing a return while no function call is in progress is a fatal
\* error, directly at the top level and inside the body of a top-level if.
C18_ReturnOutsideFunctionIsFatal ==
    (/\ last.op = "eval"
     /\ last.name \in {"return 1;", "if (true) { return 1; }"})
        => fatal

(***************************************************************************)
(* LexSpec: tokenize applied to every source text of up to MaxSource        *)
(* characters over Alphabet.                                                *)
(***************************************************************************)
MaxSource == 4

Alphabet == {"/", "1", "a", " ", ";", "\"", "\\"}

Sources == UNION {[1..n -> Alphabet] : n \in 0..MaxSource}

LexInit ==
    /\ envs = <<Environment_new(None)>>
    /\ fatal = FALSE
    /\ \E source \in Sources : last = [op |-> "source", source |-> source]
    /\ result = MK_NULL
    /\ tokens = <<>>
    /\ ast = NoNode
    /\ steps = 0

\* Tokenizer {}.tokenize(source): tokens holds what it returned
Tokenize ==
    /\ last.op = "source"
    /\ tokens' = tokenize(last.source).token_output
    /\ fatal' = tokenize(last.source).fatal
    /\ last' = [last EXCEPT !.op = "tokenize"]
    /\ UNCHANGED <<envs, result, ast, steps>>

LexNext == Tokenize

LexSpec == LexInit /\ [][LexNext]_vars

\* a source of recognized characters whose string literals are well formed:
\* outside a literal no backslash, inside one every backslash followed by
\* one of \ " ' n t, and every literal closed
RECURSIVE WellFormed(_, _, _)
WellFormed(source, i, mode) ==
    IF i > Len(source) THEN mode = "code"
    ELSE CASE mode = "code"   -> source[i] # "\\"
                                     /\ WellFormed(source, i + 1, IF source[i] = "\"" THEN "string" ELSE "code")
           [] mode = "string" -> WellFormed(source, i + 1,
                                            CASE source[i] = "\"" -> "code"
                                              [] source[i] = "\\" -> "escape"
                                              [] OTHER -> "string")
           [] mode = "escape" -> source[i] \in {"\\", "\"", "'", "n", "t"}
                                     /\ WellFormed(source, i + 1, "string")

\* C17: for every source of recognized characters and well-formed string
\* literals, tokenize returns a token sequence whose last token, and only
\* its last token, is the end-of-file token.
C17_TokenizeEndsWithEOF ==
    (last.op = "tokenize" /\ WellFormed(last.source, 1, "code"))
        => /\ ~fatal
           /\ tokens # <<>>
           /\ \A i \in DOMAIN tokens : tokens[i].token_type = "EOF" <=> i = Len(tokens)

(***************************************************************************)
(* ReplSpec: a REPL session of main.rs over one Parser, the lines being     *)
(* the source texts of up to MaxText characters over TextAlphabet.          *)
(***************************************************************************)
MaxText == 3

MaxParses == 3

TextAlphabet == {"1", "+", ";", " "}

Texts == UNION {[1..n -> TextAlphabet] : n \in 0..MaxText}

\* the REPL branch of main.rs after the parse: the Program is evaluated in
\* the global environment
ReplParsed(ast_) ==
    Evaluated(ast_, envs,
              eval(ast_.node, GlobalEnv,
                   [value |-> MK_NULL, envs |-> envs, fatal |-> FALSE, hashers |-> <<>>]))

\* one turn of the loop of main.rs: program.produce_ast(input), program
\* being the Parser the session began with, and eval
RunSource(source) ==
    /\ ~fatal
    /\ steps < MaxParses
    /\ ReplParsed(Parser_produce_ast(tokens, tokenize(source)))
    /\ last' = [op |-> "produce_ast", source |-> source]
    /\ steps' = steps + 1

\* one statement of each kind parse_stmt dispatches on by a keyword or a
\* brace: if (1) {}, while (1) {}, for (a in 1) {}, {}
StatementTexts ==
    [If    |-> <<"i", "f", "(", "1", ")", "{", "}">>,
     While |-> <<"w", "h", "i", "l", "e", "(", "1", ")", "{", "}">>,
     For   |-> <<"f", "o", "r", "(", "a", " ", "i", "n", " ", "1", ")", "{", "}">>,
     Body  |-> <<"{", "}">>]

ReplNext ==
    \E source \in Texts \cup {StatementTexts[kind] : kind \in DOMAIN StatementTexts} :
        RunSource(source)

ReplSpec == Init /\ [][ReplNext]_vars

\* C16: produce_ast yields, on a Parser that has parsed other sources
\* before, the AST a fresh Parser yields for the same source.
C16_ParseDependsOnSourceOnly ==
    last.op = "produce_ast" =>
        ast = Parser_produce_ast(<<>>, tokenize(last.source)).node

\* 1+1 was parsed to its tree by a Parser that had parsed two lines before
\* and held the end-of-file token of the second
C16_ParsedAfterOtherSources ==
    /\ last.op = "produce_ast"
    /\ steps = 3
    /\ last.source = <<"1", "+", "1">>
    /\ ast = Line(<<BinaryExpr(N(1), "+", N(1))>>)
    /\ tokens = <<EOF>>

\* C19: a statement starting with if, while or for parses to an If, a While
\* or a For node, and the evaluator executes While, For and anonymous Body
\* nodes.
C19_StatementKeywordsDispatch ==
    \A kind \in DOMAIN StatementTexts :
        (last.op = "produce_ast" /\ last.source = StatementTexts[kind])
            => /\ ~fatal
               /\ ast.body.body[1].kind = kind

(***************************************************************************)
(* WhileSpec: c is declared in the global environment and eval_while is    *)
(* called on while statements over c.  No arm of eval reaches eval_while,  *)
(* so the action calls it as eval would.                                    *)
(***************************************************************************)
WhileConditions == {Identifier("c"), N(0), N(1)}

WhileBodies ==
    {Body(<<>>), Body(<<VarDeclaration(FALSE, "c", N(0))>>), Body(<<VarDeclaration(FALSE, "c", N(1))>>)}

\* the line var c = value;
DeclareC(value) ==
    /\ EvalExpression(VarDeclaration(FALSE, "c", N(value)), <<>>)
    /\ last' = [op |-> "declare", cond_envs |-> <<>>]

\* r is what eval_while returned
WhileEvaluated(while_stmt, r) ==
    /\ envs' = r[1].envs
    /\ fatal' = r[1].fatal
    /\ result' = r[1].value
    /\ ast' = while_stmt
    /\ last' = [op |-> "while", cond_envs |-> r[2]]
    /\ steps' = steps + 1
    /\ UNCHANGED tokens

EvalWhile(condition, body) ==
    /\ ~fatal
    /\ steps < MaxOps
    /\ WhileEvaluated(WhileStmt(condition, body),
                      eval_while(WhileStmt(condition, body), GlobalEnv,
                                 [value |-> MK_NULL, envs |-> envs, fatal |-> FALSE, hashers |-> <<>>]))

WhileNext ==
    \/ \E value \in {0, 1} : DeclareC(value)
    \/ \E condition \in WhileConditions, body \in WhileBodies : EvalWhile(condition, body)

WhileSpec == Init /\ [][WhileNext]_vars

\* C20: every evaluation of a while loop's condition, the second and later
\* ones included, is in the environment that encloses the while statement.
C20_ConditionInEnclosingEnvironment ==
    last.op = "while" => \A i \in DOMAIN last.cond_envs : last.cond_envs[i] = GlobalEnv

(***************************************************************************)
(* ForSpec: a list l and a loop variable i are declared in the global      *)
(* environment and eval_for is called on `for (i in l) { var seen = i; }`. *)
(* No arm of eval reaches eval_for, so the action calls it as eval would.  *)
(***************************************************************************)
ForLoop ==
    ForStmt(Identifier("l"), Identifier("i"), Body(<<VarDeclaration(FALSE, "seen", Identifier("i"))>>))

\* the line var i = 0; or const i = 0;
DeclareI(constant) ==
    /\ EvalExpression(VarDeclaration(constant, "i", N(0)), <<>>)
    /\ last' = [op |-> "declare_var", name |-> "i"]

\* r is what eval_for returned; last keeps the size of the heap before it
ForEvaluated(r) ==
    /\ envs' = r.envs
    /\ fatal' = r.fatal
    /\ result' = r.value
    /\ ast' = ForLoop
    /\ last' = [op |-> "for", name |-> "i", heap |-> Len(envs)]
    /\ steps' = steps + 1
    /\ UNCHANGED tokens

EvalFor ==
    /\ ~fatal
    /\ steps < MaxOps
    /\ {"l", "i"} \subseteq DOMAIN envs[GlobalEnv].variables
    /\ ForEvaluated(eval_for(ForLoop, GlobalEnv,
                             [value |-> MK_NULL, envs |-> envs, fatal |-> FALSE, hashers |-> <<>>]))

ForNext ==
    \/ \E elements \in Lists \cup {<<>>} : DeclareList(elements)
    \/ \E constant \in BOOLEAN : DeclareI(constant)
    \/ EvalFor

ForSpec == Init /\ [][ForNext]_vars

\* C21: a for loop over a list of length n runs its body n times, in index
\* order, each pass in a new child environment of the enclosing scope, the
\* loop variable holding element k in its own scope before pass k and no
\* pass binding it; over an empty list nothing changes.
C21_ForRunsBodyPerElement ==
    last.op = "for" =>
        /\ ~fatal
        /\ Len(envs) = last.heap + Len(ListOfL)
        /\ \A k \in 1..Len(ListOfL) :
              /\ envs[last.heap + k].parent = GlobalEnv
              /\ DOMAIN envs[last.heap + k].variables = {"seen"}
              /\ envs[last.heap + k].variables["seen"] = ListOfL[k]
        /\ Len(ListOfL) > 0 => Global("i") = ListOfL[Len(ListOfL)]
        /\ Len(ListOfL) = 0 => Global("i") = MK_NUMBER(Num(0))

(***************************************************************************)
(* ObjSpec: a REPL session over lines that declare an object o, a string   *)
(* k and a copy b of o, and assign and read members of o.  o is declared   *)
(* by const, which is what lets assign_var write it.                        *)
(***************************************************************************)
Member(o, p, computed) == MemberExpr(Identifier(o), p, computed)

ObjCorpus ==
 << [text |-> "const o = { p: 1 };",
     ast  |-> Line(<<VarDeclaration(TRUE, "o", ObjectLiteral(<<Property("p", N(1))>>))>>)],
    [text |-> "const k = \"q\";",
     ast  |-> Line(<<VarDeclaration(TRUE, "k", StringLiteral("q"))>>)],
    [text |-> "var b = o;",
     ast  |-> Line(<<VarDeclaration(FALSE, "b", Identifier("o"))>>)],
    [text |-> "o[k] = 2;",
     ast  |-> Line(<<AssignmentExpr(Member("o", Identifier("k"), TRUE), N(2))>>)],
    [text |-> "o[\"q\"] = 2;",
     ast  |-> Line(<<AssignmentExpr(Member("o", StringLiteral("q"), TRUE), N(2))>>)],
    [text |-> "o[k]",
     ast  |-> Line(<<Member("o", Identifier("k"), TRUE)>>)],
    [text |-> "o[\"q\"]",
     ast  |-> Line(<<Member("o", StringLiteral("q"), TRUE)>>)],
    [text |-> "o.p = 3;",
     ast  |-> Line(<<AssignmentExpr(Member("o", Identifier("p"), FALSE), N(3))>>)],
    [text |-> "if (true) { o.p = 4; }",
     ast  |-> Line(<<IfStmt(Identifier("true"),
                            Body(<<AssignmentExpr(Member("o", Identifier("p"), FALSE), N(4))>>),
                            NoNode)>>)] >>

\* one turn of the loop of main.rs on line i of ObjCorpus
RunObjLine(i) ==
    /\ ~fatal
    /\ steps < MaxSteps
    /\ LET r == eval(ObjCorpus[i].ast, GlobalEnv,
                     [value |-> MK_NULL, envs |-> envs, fatal |-> FALSE, hashers |-> <<>>])
       IN  /\ envs' = r.envs
           /\ fatal' = r.fatal
           /\ result' = r.value
    /\ ast' = ObjCorpus[i].ast
    /\ last' = [NoOp EXCEPT !.op = "eval", !.env = GlobalEnv, !.name = ObjCorpus[i].text]
    /\ steps' = steps + 1
    /\ UNCHANGED tokens

ObjNext == \E i \in DOMAIN ObjCorpus : RunObjLine(i)

ObjSpec == Init /\ [][ObjNext]_vars

\* C22: for an object bound to o and an expression e that evaluates to the
\* string s, a string literal or a variable holding a string, after
\* o[e] = v the property named s of o holds v.
C22_ComputedAssignNamesProperty ==
    (/\ last.name \in {"o[k] = 2;", "o[\"q\"] = 2;"}
     /\ {"o", "k"} \subseteq DOMAIN envs[GlobalEnv].variables)
        => /\ ~fatal
           /\ "q" \in DOMAIN Global("o").properties
           /\ Global("o").properties["q"] = MK_NUMBER(Num(2))

\* the lines of ObjCorpus that assign a member of o
MemberAssignments == {"o[k] = 2;", "o[\"q\"] = 2;", "o.p = 3;", "if (true) { o.p = 4; }"}

\* C23: a member assignment a.p = v changes only the binding of a in the
\* scope that owns it; every other binding, one initialised from a included,
\* keeps its value.
C23_MemberAssignmentFrame ==
    [][last'.name \in MemberAssignments =>
          \A e \in DOMAIN envs : \A n \in DOMAIN envs[e].variables :
              (e # GlobalEnv \/ n # "o") =>
                  /\ n \in DOMAIN envs'[e].variables
                  /\ envs'[e].variables[n] = envs[e].variables[n]]_vars

\* o.p was assigned, from the global scope or from the scope of an if body,
\* while b held the object o had
C23_AssignedBesideCopy ==
    /\ ~fatal
    /\ last.name \in {"o.p = 3;", "if (true) { o.p = 4; }"}
    /\ {"o", "b"} \subseteq DOMAIN envs[GlobalEnv].variables
    /\ Global("o").properties["p"] # MK_NUMBER(Num(1))
    /\ Global("b").properties["p"] = MK_NUMBER(Num(1))

(***************************************************************************)
(* CallSpec: the global scope declares a function f, whose body is any     *)
(* sequence of up to MaxBody statements out of two declarations, a return  *)
(* and a bare number, and a function g that calls f and then declares      *)
(* `after`; f and g are then called from the global scope.                  *)
(***************************************************************************)
MaxBody == 3

BodyStatements ==
    <<VarDeclaration(FALSE, "a", N(1)), VarDeclaration(FALSE, "b", N(2)), ReturnStmt(N(3)), N(4)>>

\* a body is chosen by the positions of its statements in BodyStatements
Bodies == UNION {[1..n -> DOMAIN BodyStatements] : n \in 0..MaxBody}

BodyOf(choice) == [i \in DOMAIN choice |-> BodyStatements[choice[i]]]

G == FunctionDeclaration("g", <<>>, Body(<<Call0("f"), VarDeclaration(FALSE, "after", N(1))>>))

DeclareFn(stmts) ==
    /\ EvalExpression(FunctionDeclaration("f", <<>>, Body(stmts)), <<>>)
    /\ last' = [op |-> "declare_var", name |-> "f", heap |-> Len(envs)]

DeclareG ==
    /\ EvalExpression(G, <<>>)
    /\ last' = [op |-> "declare_var", name |-> "g", heap |-> Len(envs)]

\* r is what eval returned for the call of fname; last keeps the size of the
\* heap before the call: the environments the call made lie above it
Called(fname, r) ==
    /\ envs' = r.envs
    /\ fatal' = r.fatal
    /\ result' = r.value
    /\ ast' = Call0(fname)
    /\ last' = [op |-> "call", name |-> fname, heap |-> Len(envs)]
    /\ steps' = steps + 1
    /\ UNCHANGED tokens

CallFn(fname) ==
    /\ ~fatal
    /\ steps < MaxOps
    /\ fname \in DOMAIN envs[GlobalEnv].variables
    /\ Called(fname, eval(Line(<<Call0(fname)>>), GlobalEnv,
                          [value |-> MK_NULL, envs |-> envs, fatal |-> FALSE, hashers |-> <<>>]))

CallNext ==
    \/ \E choice \in Bodies : DeclareFn(BodyOf(choice))
    \/ DeclareG
    \/ \E fname \in {"f", "g"} : CallFn(fname)

CallSpec == Init /\ [][CallNext]_vars

\* the statements of a body the claim says run: those up to the first return
\* that is a direct statement of it
Returns(stmts) == {i \in DOMAIN stmts : stmts[i].kind = "Return"}

RunStatements(stmts) ==
    IF Returns(stmts) = {} THEN stmts
    ELSE SubSeq(stmts, 1, CHOOSE i \in Returns(stmts) : \A j \in Returns(stmts) : i <= j)

\* what a statement of BodyStatements is worth, read off the statement
StatementValue(stmt) ==
    IF stmt.kind = "NumericLiteral" THEN MK_NUMBER(stmt.value) ELSE MK_NUMBER(stmt.value.value)

\* the bindings the declarations among stmts make
DeclaredBy(stmts) ==
    {<<stmts[i].identifier, StatementValue(stmts[i])>> :
        i \in {j \in DOMAIN stmts : stmts[j].kind = "VarDeclaration"}}

Bindings(env) == {<<n, env.variables[n]>> : n \in DOMAIN env.variables}

\* C24: a call of a user function runs the statements of the body in order
\* in the call environment up to the first return that is a direct statement
\* of the body; the result is that return's value, or without a return the
\* value of the last statement, Null for an empty body.
C24_CallRunsBodyUntilReturn ==
    (last.op = "call" /\ last.name = "f" /\ ~fatal) =>
        /\ Len(envs) = last.heap + 1
        /\ Bindings(envs[Len(envs)]) = DeclaredBy(RunStatements(Global("f").body.body))
        /\ result = IF RunStatements(Global("f").body.body) = <<>> THEN MK_NULL
                    ELSE StatementValue(RunStatements(Global("f").body.body)
                                            [Len(RunStatements(Global("f").body.body))])

\* f was called with a body that has a statement after its return
C24_ReturnedBeforeEnd ==
    /\ last.op = "call" /\ last.name = "f" /\ ~fatal
    /\ Returns(Global("f").body.body) # {}
    /\ Len(RunStatements(Global("f").body.body)) < Len(Global("f").body.body)
    /\ Len(RunStatements(Global("f").body.body)) > 1

\* f was called with a body of two statements and no return
C24_RanToEnd ==
    /\ last.op = "call" /\ last.name = "f" /\ ~fatal
    /\ Returns(Global("f").body.body) = {}
    /\ Len(Global("f").body.body) > 1

\* C29: a return executed in a callee never stops the caller: after a call of
\* a user function every environment that existed before it, the caller's,
\* its ancestors and the root among them, has the continue_interpreting it
\* had, and g, whose body calls f, goes on to its next statement after f
\* returned.
C29_ReturnStopsOnlyCallee ==
    [][(last'.op = "call" /\ ~fatal') =>
          /\ \A e \in DOMAIN envs :
                 envs'[e].continue_interpreting = envs[e].continue_interpreting
          /\ last'.name = "g" =>
                 /\ envs'[Len(envs) + 1].continue_interpreting
                 /\ "after" \in DOMAIN envs'[Len(envs) + 1].variables]_vars

\* g was called and the f it called executed a return: the environment of
\* that call of f, a child of g's, has continue_interpreting cleared
C29_CalleeReturnedInsideCaller ==
    /\ last.op = "call" /\ last.name = "g" /\ ~fatal
    /\ Len(envs) = last.heap + 2
    /\ envs[last.heap + 2].parent = last.heap + 1
    /\ ~envs[last.heap + 2].continue_interpreting

(***************************************************************************)
(* DeclSpec: a REPL session over lines that run `var x;` in the global     *)
(* scope, in the scope of an if body and in the scope of a call, with and  *)
(* without a binding of the name null in the scope.                         *)
(***************************************************************************)
VarX == VarDeclaration(FALSE, "x", Identifier("null"))

DeclCorpus ==
 << [text |-> "var x;",
     ast  |-> Line(<<VarX>>)],
    [text |-> "if (true) { var x; }",
     ast  |-> Line(<<IfStmt(Identifier("true"), Body(<<VarX>>), NoNode)>>)],
    [text |-> "if (true) { var null = 1; var x; }",
     ast  |-> Line(<<IfStmt(Identifier("true"),
                            Body(<<VarDeclaration(FALSE, "null", N(1)), VarX>>), NoNode)>>)],
    [text |-> "function f(null) { var x; return x; }",
     ast  |-> Line(<<FunctionDeclaration("f", <<"null">>,
                                         Body(<<VarX, ReturnStmt(Identifier("x"))>>))>>)],
    [text |-> "function g() { var x; return x; }",
     ast  |-> Line(<<FunctionDeclaration("g", <<>>,
                                         Body(<<VarX, ReturnStmt(Identifier("x"))>>))>>)],
    [text |-> "f(1)",
     ast  |-> Line(<<CallExpr(Identifier("f"), <<N(1)>>)>>)],
    [text |-> "g()",
     ast  |-> Line(<<Call0("g")>>)] >>

\* one turn of the loop of main.rs on line i of DeclCorpus
RunDeclLine(i) ==
    /\ ~fatal
    /\ steps < MaxSteps
    /\ LET r == eval(DeclCorpus[i].ast, GlobalEnv,
                     [value |-> MK_NULL, envs |-> envs, fatal |-> FALSE, hashers |-> <<>>])
       IN  /\ envs' = r.envs
           /\ fatal' = r.fatal
           /\ result' = r.value
    /\ ast' = DeclCorpus[i].ast
    /\ last' = [NoOp EXCEPT !.op = "eval", !.env = GlobalEnv, !.name = DeclCorpus[i].text]
    /\ steps' = steps + 1
    /\ UNCHANGED tokens

DeclNext == \E i \in DOMAIN DeclCorpus : RunDeclLine(i)

DeclSpec == Init /\ [][DeclNext]_vars

\* C27: `var x;` binds x to Null in the scope it runs in, whatever other
\* names are bound or shadowed in the visible scope chain: every x of the
\* session, each bound by a `var x;`, is Null.
C27_UninitialisedIsNull ==
    ~fatal => \A e \in DOMAIN envs :
                  "x" \in DOMAIN envs[e].variables => envs[e].variables["x"] = MK_NULL

(***************************************************************************)
(* TokSpec: the Parser holds any sequence of up to MaxTokens tokens and the *)
(* end-of-file token, and each step is one turn of the loop of produce_ast: *)
(* one call of parse_stmt on the tokens left.                               *)
(***************************************************************************)
MaxTokens == 4

\* the tokens of statements and arithmetic, those of bodies, object literals
\* and argument lists, and those of member chains, comparisons and if
TokenAlphabets ==
    {{Token("Var", "var"), Token("Return", "return"), Token("Identifier", "x"),
      Token("Equals", "="), Token("Number", "1"), Token("Semicolon", ";"),
      Token("String", "+"), Token("BinaryOperator", "+"), Token("OpenParen", "(")},
     {Token("Identifier", "x"), Token("Number", "1"), Token("Equals", "="),
      Token("OpenBrace", "{"), Token("CloseBrace", "}"), Token("Colon", ":"),
      Token("Comma", ","), Token("OpenParen", "("), Token("CloseParen", ")")},
     {Token("Identifier", "x"), Token("Number", "1"), Token("Equals", "="),
      Token("Dot", "."), Token("OpenBracket", "["), Token("CloseBracket", "]"),
      Token("LeftAngleBracket", "<"), Token("If", "if"), Token("BinaryOperator", "*")}}

TokenSequences ==
    UNION {[1..n -> alphabet] : n \in 0..MaxTokens, alphabet \in TokenAlphabets}

TokInit ==
    /\ envs = <<Environment_new(None)>>
    /\ fatal = FALSE
    /\ last = [op |-> "tokens", tokens |-> <<>>]
    /\ result = MK_NULL
    /\ tokens \in {sequence \o <<EOF>> : sequence \in TokenSequences}
    /\ ast = NoNode
    /\ steps = 0

\* stmt is what parse_stmt returned; last keeps the tokens it was called on
StmtParsed(stmt) ==
    /\ tokens' = stmt.tokens
    /\ fatal' = stmt.fatal
    /\ ast' = stmt.node
    /\ last' = [op |-> "parse_stmt", tokens |-> tokens]
    /\ UNCHANGED <<envs, result, steps>>

\* while self.not_eof() { self.parse_stmt() }
ParseStmt ==
    /\ ~fatal
    /\ not_eof([tokens |-> tokens])
    /\ StmtParsed(parse_stmt([node |-> NoNode, tokens |-> tokens, fatal |-> FALSE]))

TokNext == ParseStmt

TokSpec == TokInit /\ [][TokNext]_vars

\* the tokens the last call of parse_stmt consumed
Consumed == SubSeq(last.tokens, 1, Len(last.tokens) - Len(tokens))

\* C28: a BinaryExpr is built only from a token of the arithmetic-operator
\* class: a statement whose tokens hold no BinaryOperator token is no
\* BinaryExpr.
C28_OperatorFromOperatorToken ==
    (/\ last.op = "parse_stmt"
     /\ ~fatal
     /\ \A i \in DOMAIN Consumed : Consumed[i].token_type # "BinaryOperator")
        => ast.kind # "BinaryExpr"

\* var x = 1, return 1 and ( 1, each followed by the end of the file
VarWithoutSemicolon ==
    <<Token("Var", "var"), Token("Identifier", "x"), Token("Equals", "="), Token("Number", "1"), EOF>>

ReturnWithoutSemicolon == <<Token("Return", "return"), Token("Number", "1"), EOF>>

ParenthesisNotClosed == <<Token("OpenParen", "("), Token("Number", "1"), EOF>>

\* C25: a missing semicolon after a variable declaration or after a return
\* statement is only logged and parsing continues, whereas a missing
\* parenthesis aborts the process.
C25_MissingSemicolonOnlyLogged ==
    last.op = "parse_stmt" =>
        /\ last.tokens \in {VarWithoutSemicolon, ReturnWithoutSemicolon} => ~fatal
        /\ last.tokens = ParenthesisNotClosed => fatal

\* C30: every call of parse_stmt by the loop of produce_ast consumes at
\* least one token or aborts the process, so the loop ends on every token
\* sequence that ends with the end-of-file token.
C30_ParseStmtConsumesOrAborts ==
    [][fatal' \/ Len(tokens') < Len(tokens)]_vars

\* a statement parsed by the additive loop has been consumed and another
\* statement is left to parse
C30_StatementLeft ==
    /\ last.op = "parse_stmt"
    /\ ~fatal
    /\ ast.kind = "BinaryExpr"
    /\ Len(Consumed) = 3
    /\ Len(tokens) = 2

====
